---- MODULE Spec2Model ----
(***************************************************************************)
(* A model of the ACIDGRID composition engine: the song structure planner  *)
(* (acidgrid/song_structure.py) and the track generators that query it.    *)
(*                                                                         *)
(* Numbers.  The code computes with Python floats; the model computes with *)
(* exact integers and rationals:                                           *)
(*   - a section intensity is kept in hundredths (0.95 is 95);             *)
(*   - get_intensity returns the rational num / den, in hundredths;        *)
(*   - a velocity modifier is kept in thousandths;                         *)
(*   - a time of the sub-bass is kept in sixteenths of a beat (one tick),  *)
(*     a time of the rhythm, bassline and accompaniment in 1/4800 beat;    *)
(*     seconds are beats * 60 / tempo: tempo > 0 only scales a time.       *)
(* A draw of random.random() < p with 0 < p < 1 is a free boolean, a draw  *)
(* of random.choice an index, a draw of random.uniform(-a, a) one of       *)
(* -a, 0, a.                                                               *)
(***************************************************************************)
EXTENDS Integers, Sequences, FiniteSets, TLC

VARIABLES
    pc,              \* "new" before SongStructure.__init__, "built" after it
    total_measures,  \* SongStructure.total_measures
    style,           \* SongStructure.style: a name of MUSIC_STYLES, or "none"
    sections,        \* SongStructure.sections
    mood,            \* SongStructure.mood
    call,            \* the query in progress: [op, measure, base, instrument]
    ret,             \* what the query returned
    sb_pc,           \* SubBassGenerator.generate: "idle", "measure", "entry", "done"
    sb_in,           \* its inputs: [structured, beats, measures]
    sb_measure,      \* the loop variable measure
    sb_time,         \* current_time, in ticks
    sb_pattern,      \* the pattern of the measure being rendered
    sb_idx,          \* how many entries of sb_pattern are rendered
    sb_events,       \* the events the last rendered entry appended to events
    sb_late,         \* how far after current_time the last event appended
                     \* before sb_events lies, in ticks (0 when it does not)
    rh_pc,           \* RhythmGenerator.generate: "idle", "choose", "render", "raised", "done"
    rh_in,           \* its inputs: [structured, style, beats, swing, measures]
    rh_measure,      \* the loop variable measure
    rh_time,         \* current_time, in units
    rh_history,      \* pattern_history
    rh_pattern,      \* the pattern chosen for the last measure, "none" if gated
    rh_modified,     \* modified_pattern of the last measure
    rh_events,       \* the events the last measure appended to events
    bl_pc,           \* BasslineGenerator.generate: "idle", "choose", "render", "done"
    bl_in,           \* its inputs: [structured, style, measures]
    bl_calls,        \* how many times generate was called on the instance
    bl_measure,      \* the loop variable measure
    bl_time,         \* current_time, in units
    bl_riff,         \* current_riff_name, "none" for None
    bl_counter,      \* riff_change_counter
    bl_history,      \* self.riff_history
    bl_selected,     \* the last turn of the loop selected a riff
    bl_varied,       \* varied_riff of the last measure
    bl_events,       \* the events the last measure appended to events
    bl_fresh,        \* the selection of a new instance in the same call
    ld_pc,           \* SynthLeadGenerator.generate: "idle", "phrase", "measure", "done"
    ld_in,           \* its inputs: [structured, measures]
    ld_phrase,       \* the loop variable phrase_start
    ld_measure,      \* the loop variable measure of _generate_lead_phrase
    ld_style,        \* melody_style of the phrase, "none" if it has no lead
    ld_events,       \* the events the last measure appended to events
    ac_pc,           \* SynthAccompanimentGenerator.generate: "idle", "choose", "render", "done"
    ac_in,           \* its inputs: [structured, style, measures]
    ac_measure,      \* the loop variable measure
    ac_time,         \* current_time, in units
    ac_played,       \* the last turn of the loop was not skipped by the gate
    ac_skipped,      \* how many turns of the loop the gate skipped
    ac_events,       \* the events the last measure appended to events
    song             \* the full generation in progress, counted from 1

structVars == <<pc, total_measures, style, sections, mood>>
queryVars == <<call, ret>>
subBassVars == <<sb_pc, sb_in, sb_measure, sb_time, sb_pattern, sb_idx, sb_events,
                 sb_late>>
rhythmVars == <<rh_pc, rh_in, rh_measure, rh_time, rh_history, rh_pattern,
                rh_modified, rh_events>>
bassVars == <<bl_pc, bl_in, bl_calls, bl_measure, bl_time, bl_riff, bl_counter,
              bl_history, bl_selected, bl_varied, bl_events, bl_fresh>>
accompVars == <<ac_pc, ac_in, ac_measure, ac_time, ac_played, ac_skipped,
                ac_events>>
leadVars == <<ld_pc, ld_in, ld_phrase, ld_measure, ld_style, ld_events>>
nonRhythmVars == <<structVars, queryVars, subBassVars, bassVars, accompVars,
                   leadVars, song>>
nonBassVars == <<structVars, queryVars, subBassVars, rhythmVars, accompVars,
                 leadVars, song>>
nonAccompVars == <<structVars, queryVars, subBassVars, rhythmVars, bassVars,
                   leadVars, song>>
nonLeadVars == <<structVars, queryVars, subBassVars, rhythmVars, bassVars,
                 accompVars, song>>
genVars == <<rhythmVars, bassVars, accompVars, leadVars, song>>
vars == <<structVars, queryVars, subBassVars, genVars>>

----------------------------------------------------------------------------
(* Bounds of the model *)

MaxMeasures == 66    \* total_measures ranges over 1..MaxMeasures
MaxOut == 2          \* queries reach MaxOut measures outside [0, total_measures)
MaxBase == 300       \* base velocities reach from -MaxBase to MaxBase
MaxSubMeasures == 34 \* the longest sub-bass track generated with a SongStructure
MaxLongMeasures == 130 \* the longest sub-bass track generated without one
MaxRhythmMeasures == 10 \* the longest rhythm track generated
MaxBassMeasures == 9 \* the most measures asked of one BasslineGenerator
MaxAccompMeasures == 17 \* the longest accompaniment track generated
MaxSongs == 4 \* the most full generations of one behaviour
MaxCrashMeasures == 17 \* the measures of a rhythm track followed up to a drop
MaxLeadMeasures == 36 \* the longest lead track generated

\* parse_time_signature accepts the numerators 1..MaxNumerator.
MaxNumerator == 16

----------------------------------------------------------------------------
(* Plain arithmetic *)

Max(a, b) == IF a >= b THEN a ELSE b
Min(a, b) == IF a <= b THEN a ELSE b
Abs(a) == IF a >= 0 THEN a ELSE -a

\* Python's int() of the quotient a / b, b > 0: truncation toward zero.
TruncDiv(a, b) == IF a >= 0 THEN a \div b ELSE -((-a) \div b)

----------------------------------------------------------------------------
(* The style catalog: music_styles.py *)

StyleNames ==
    {"house", "techno", "hard-tekno", "breakbeat", "idm", "jungle",
     "hip-hop", "trap", "ambient", "drum&bass"}

\* style=None is the style "none"
Styles == StyleNames \cup {"none"}

structure_type(s) ==
    CASE s = "house" -> "classic"
      [] s = "techno" -> "progressive"
      [] s = "hard-tekno" -> "aggressive"
      [] s = "breakbeat" -> "breakbeat"
      [] s = "idm" -> "experimental"
      [] s = "jungle" -> "jungle"
      [] s = "hip-hop" -> "hip-hop"
      [] s = "trap" -> "trap"
      [] s = "ambient" -> "ambient"
      [] s = "drum&bass" -> "dnb"
      [] OTHER -> "none"

----------------------------------------------------------------------------
(* SongStructure: song_structure.py *)

\* The dataclass Section, without its constant scale ("minor") and its
\* free-text description; intensity in hundredths.
Section(name, start, end, intensity, key) ==
    [name |-> name, start_measure |-> start, end_measure |-> end,
     intensity |-> intensity, key |-> key]

PROGRESSIONS ==
    [dark |-> <<"i", "iv", "i", "v">>,
     uplifting |-> <<"i", "VI", "III", "VII">>,
     driving |-> <<"i", "i", "i", "i">>,
     emotional |-> <<"i", "v", "VI", "iv">>,
     tension |-> <<"i", "bII", "i", "v">>]

Moods == DOMAIN PROGRESSIONS

\* The moods _choose_mood_for_style draws from.
style_moods(s) ==
    CASE s = "house" -> {"uplifting", "emotional", "dark"}
      [] s = "techno" -> {"dark", "driving", "tension"}
      [] s = "hard-tekno" -> {"driving", "tension", "dark"}
      [] s = "breakbeat" -> {"uplifting", "driving"}
      [] s = "idm" -> {"tension", "dark", "emotional"}
      [] s = "jungle" -> {"dark", "driving", "tension"}
      [] s = "hip-hop" -> {"emotional", "dark"}
      [] s = "trap" -> {"dark", "tension"}
      [] s = "ambient" -> {"emotional", "uplifting"}
      [] s = "drum&bass" -> {"dark", "driving", "tension"}
      [] OTHER -> Moods

\* _create_default_structure with the short-track test written "< 32".
_create_default_structure_lt(tm) ==
    IF tm < 32 THEN
        << Section("intro", 0, 4, 30, "A_minor"),
           Section("main", 4, 24, 80, "A_minor"),
           Section("outro", 24, tm, 40, "A_minor") >>
    ELSE
        << Section("intro", 0, 8, 20, "A_minor"),
           Section("buildup", 8, 16, 50, "A_minor"),
           Section("drop", 16, 32, 90, "A_minor"),
           Section("breakdown", 32, 40, 40, "D_minor"),
           Section("buildup2", 40, 48, 60, "A_minor"),
           Section("drop2", 48, 56, 100, "A_minor"),
           Section("outro", 56, tm, 30, "A_minor") >>

_create_default_structure(tm) ==
    IF tm <= 32 THEN
        << Section("intro", 0, 4, 30, "A_minor"),
           Section("main", 4, 24, 80, "A_minor"),
           Section("outro", 24, tm, 40, "A_minor") >>
    ELSE IF tm <= 64 THEN
        << Section("intro", 0, 8, 20, "A_minor"),
           Section("buildup", 8, 16, 50, "A_minor"),
           Section("drop", 16, 32, 90, "A_minor"),
           Section("breakdown", 32, 40, 40, "D_minor"),
           Section("buildup2", 40, 48, 60, "A_minor"),
           Section("drop2", 48, 56, 100, "A_minor"),
           Section("outro", 56, tm, 30, "A_minor") >>
    ELSE
        LET L == tm \div 8 IN
        << Section("intro", 0, L, 20, "A_minor"),
           Section("verse1", L, L * 2, 50, "A_minor"),
           Section("buildup1", L * 2, L * 3, 70, "A_minor"),
           Section("drop1", L * 3, L * 4, 95, "A_minor"),
           Section("breakdown", L * 4, L * 5, 30, "D_minor"),
           Section("buildup2", L * 5, L * 6, 80, "A_minor"),
           Section("drop2", L * 6, L * 7, 100, "A_minor"),
           Section("outro", L * 7, tm, 20, "A_minor") >>

_create_ambient_structure(tm) ==
    LET L == Max(16, tm \div 4) IN
    << Section("intro", 0, L, 20, "A_minor"),
       Section("evolution", L, L * 2, 40, "D_minor"),
       Section("plateau", L * 2, L * 3, 50, "E_minor"),
       Section("outro", L * 3, tm, 30, "A_minor") >>

_create_hiphop_structure(tm) ==
    IF tm <= 32 THEN
        << Section("intro", 0, 4, 30, "A_minor"),
           Section("verse1", 4, 12, 60, "A_minor"),
           Section("hook", 12, 20, 80, "A_minor"),
           Section("verse2", 20, 28, 70, "A_minor"),
           Section("outro", 28, tm, 40, "A_minor") >>
    ELSE
        LET L == tm \div 8 IN
        << Section("intro", 0, L, 30, "A_minor"),
           Section("verse1", L, L * 2, 60, "A_minor"),
           Section("hook1", L * 2, L * 3, 80, "A_minor"),
           Section("verse2", L * 3, L * 4, 70, "D_minor"),
           Section("bridge", L * 4, L * 5, 50, "E_minor"),
           Section("verse3", L * 5, L * 6, 70, "A_minor"),
           Section("hook2", L * 6, L * 7, 90, "A_minor"),
           Section("outro", L * 7, tm, 30, "A_minor") >>

_create_trap_structure(tm) ==
    LET L == Max(8, tm \div 6) IN
    << Section("intro", 0, L, 30, "A_minor"),
       Section("buildup1", L, L * 2, 60, "A_minor"),
       Section("drop1", L * 2, L * 3, 95, "A_minor"),
       Section("break", L * 3, L * 4, 40, "D_minor"),
       Section("buildup2", L * 4, L * 5, 80, "A_minor"),
       Section("drop2", L * 5, tm, 100, "A_minor") >>

_create_breakbeat_structure(tm) ==
    LET L == Max(8, tm \div 6) IN
    << Section("intro", 0, L, 40, "A_minor"),
       Section("main1", L, L * 2, 85, "A_minor"),
       Section("breakdown", L * 2, L * 3, 30, "D_minor"),
       Section("buildup", L * 3, L * 4, 70, "A_minor"),
       Section("main2", L * 4, L * 5, 95, "A_minor"),
       Section("outro", L * 5, tm, 50, "A_minor") >>

_create_aggressive_structure(tm) ==
    LET L == Max(8, tm \div 5) IN
    << Section("intro", 0, L, 70, "A_minor"),
       Section("main1", L, L * 2, 95, "A_minor"),
       Section("breakdown", L * 2, L * 3, 60, "D_minor"),
       Section("main2", L * 3, L * 4, 100, "A_minor"),
       Section("outro", L * 4, tm, 80, "A_minor") >>

_create_structure(tm, s) ==
    LET t == structure_type(s) IN
    IF s # "none" /\ t = "ambient" THEN _create_ambient_structure(tm)
    ELSE IF s # "none" /\ t = "hip-hop" THEN _create_hiphop_structure(tm)
    ELSE IF s # "none" /\ t = "trap" THEN _create_trap_structure(tm)
    ELSE IF s # "none" /\ t \in {"breakbeat", "jungle", "dnb"}
        THEN _create_breakbeat_structure(tm)
    ELSE IF s # "none" /\ t = "aggressive" THEN _create_aggressive_structure(tm)
    ELSE _create_default_structure(tm)

\* get_section's linear scan from index i: the index of the first section
\* that contains m, the last index when none does.
RECURSIVE get_section_from(_, _, _)
get_section_from(secs, m, i) ==
    IF i > Len(secs) THEN Len(secs)
    ELSE IF secs[i].start_measure <= m /\ m < secs[i].end_measure THEN i
    ELSE get_section_from(secs, m, i + 1)

\* get_section with the containment test written "<= end_measure".
RECURSIVE get_section_closed_from(_, _, _)
get_section_closed_from(secs, m, i) ==
    IF i > Len(secs) THEN Len(secs)
    ELSE IF secs[i].start_measure <= m /\ m <= secs[i].end_measure THEN i
    ELSE get_section_closed_from(secs, m, i + 1)

get_section_closed(secs, m) == get_section_closed_from(secs, m, 1)

\* get_section with the default written "return self.sections[0]".
get_section_default_first(secs, m) ==
    LET i == get_section_from(secs, m, 1) IN
    IF secs[i].start_measure <= m /\ m < secs[i].end_measure THEN i ELSE 1

\* get_section, as the index of the section it returns.
get_section(secs, m) == get_section_from(secs, m, 1)

\* get_intensity with the cross-fade starting at half the section.
get_intensity_half(secs, m) ==
    LET i == get_section(secs, m)
        section == secs[i]
        span == Max(1, section.end_measure - section.start_measure)
        offset == m - section.start_measure
    IN  IF i < Len(secs) /\ 2 * offset > span
        THEN [num |-> section.intensity * span
                      + (secs[i + 1].intensity - section.intensity)
                        * (4 * offset - 3 * span),
              den |-> span]
        ELSE [num |-> section.intensity, den |-> 1]

\* get_intensity: the rational num / den (den > 0), in hundredths.
get_intensity(secs, m) ==
    LET i == get_section(secs, m)
        section == secs[i]
        span == Max(1, section.end_measure - section.start_measure)
        \* position_in_section = offset / span
        offset == m - section.start_measure
        has_next == i < Len(secs)
    IN  IF has_next /\ 4 * offset > 3 * span
        THEN \* transition_progress = (offset / span - 0.75) * 4
             [num |-> section.intensity * span
                      + (secs[i + 1].intensity - section.intensity)
                        * (4 * offset - 3 * span),
              den |-> span]
        ELSE [num |-> section.intensity, den |-> 1]

\* get_harmonic_context with the chord counted from the start of the track.
get_harmonic_context_abs(secs, md, m) ==
    LET section == secs[get_section(secs, m)]
        progression == PROGRESSIONS[md]
    IN  [key |-> section.key,
         chord |-> progression[((m \div 4) % Len(progression)) + 1],
         section |-> section.name,
         intensity |-> get_intensity(secs, m)]

\* get_harmonic_context: key, chord and section name (the scale is
\* KEYS[key]["notes"], the intensity is get_intensity(measure)).
get_harmonic_context(secs, md, m) ==
    LET section == secs[get_section(secs, m)]
        progression == PROGRESSIONS[md]
        measures_in_section == m - section.start_measure
        chord_index == (measures_in_section \div 4) % Len(progression)
    IN  [key |-> section.key,
         chord |-> progression[chord_index + 1],
         section |-> section.name,
         intensity |-> get_intensity(secs, m)]


\* section.name.startswith("buildup"), over the names the templates use.
is_buildup_name(n) == n \in {"buildup", "buildup1", "buildup2"}

\* section.name.startswith("drop"), over the names the templates use.
is_drop_name(n) == n \in {"drop", "drop1", "drop2"}

\* The modifier of get_velocity_curve before int(): the rational num / den.
\* j1 is the draw of uniform(-0.1, 0.1), j2 that of uniform(-0.05, 0.05),
\* both in thousandths.
velocity_modifier(secs, m, j1, j2) ==
    LET intensity == get_intensity(secs, m)
        section == secs[get_section(secs, m)]
        span == Max(1, section.end_measure - section.start_measure)
        offset == m - section.start_measure
    IN  IF is_buildup_name(section.name)
        THEN \* 0.7 + 0.3 * progress
             [num |-> 700 * span + 300 * offset + j2 * span, den |-> 1000 * span]
        ELSE IF is_drop_name(section.name)
        THEN [num |-> 1000 + j1 + j2, den |-> 1000]
        ELSE IF section.name = "breakdown"
        THEN [num |-> 600 + j1 + j2, den |-> 1000]
        ELSE [num |-> 10 * intensity.num + j2 * intensity.den,
              den |-> 1000 * intensity.den]

\* get_velocity_curve with the clamp written "min(127, final_velocity)".
get_velocity_curve_no_floor(secs, m, base_velocity, j1, j2) ==
    LET modifier == velocity_modifier(secs, m, j1, j2)
    IN  Min(127, TruncDiv(base_velocity * modifier.num, modifier.den))

get_velocity_curve(secs, m, base_velocity, j1, j2) ==
    LET modifier == velocity_modifier(secs, m, j1, j2)
        final_velocity == TruncDiv(base_velocity * modifier.num, modifier.den)
    IN  Max(1, Min(127, final_velocity))

\* section.name.rstrip("0123456789"), over the names the templates use.
rstrip_digits(n) ==
    CASE n \in {"buildup1", "buildup2"} -> "buildup"
      [] n \in {"drop1", "drop2"} -> "drop"
      [] n \in {"verse1", "verse2", "verse3"} -> "verse"
      [] n \in {"hook1", "hook2"} -> "hook"
      [] n \in {"main1", "main2"} -> "main"
      [] OTHER -> n

\* The rules table of should_play_instrument: "yes" for True, "no" for
\* False, "draw" for an entry random.random() < p decides.
play_rules ==
    [intro |-> [drums |-> "draw", bass |-> "draw", sub_bass |-> "no",
                synth_accomp |-> "draw", synth_lead |-> "draw"],
     buildup |-> [drums |-> "yes", bass |-> "yes", sub_bass |-> "draw",
                  synth_accomp |-> "yes", synth_lead |-> "draw"],
     drop |-> [drums |-> "yes", bass |-> "yes", sub_bass |-> "yes",
               synth_accomp |-> "yes", synth_lead |-> "draw"],
     breakdown |-> [drums |-> "draw", bass |-> "draw", sub_bass |-> "draw",
                    synth_accomp |-> "yes", synth_lead |-> "draw"],
     outro |-> [drums |-> "draw", bass |-> "draw", sub_bass |-> "no",
                synth_accomp |-> "draw", synth_lead |-> "draw"]]

Instruments == {"drums", "bass", "sub_bass", "synth_accomp", "synth_lead"}

\* should_play_instrument with the rules of "breakdown" for the section
\* types outside the table.
should_play_instrument_soft(secs, m, instrument, draw) ==
    LET section == secs[get_section(secs, m)]
        stripped == rstrip_digits(section.name)
        section_type == IF stripped \in DOMAIN play_rules THEN stripped ELSE "breakdown"
        rule == play_rules[section_type][instrument]
    IN  IF rule = "draw" THEN draw ELSE rule = "yes"

\* should_play_instrument; draw is the outcome of the entry's random test.
\* (No section type outside the table contains "build", so such a type uses
\* the rules of "drop".)
should_play_instrument(secs, m, instrument, draw) ==
    LET section == secs[get_section(secs, m)]
        stripped == rstrip_digits(section.name)
        section_type == IF stripped \in DOMAIN play_rules THEN stripped ELSE "drop"
        rule == play_rules[section_type][instrument]
    IN  IF rule = "draw" THEN draw ELSE rule = "yes"

----------------------------------------------------------------------------
(* The state machine of one SongStructure and its queries *)

NoCall == [op |-> "none", measure |-> 0, base |-> 0, instrument |-> "none"]
NoRet == [section |-> 0, num |-> 0, den |-> 1, chord |-> "none",
          key |-> "none", velocity |-> 0, play |-> FALSE]

Init ==
    /\ pc = "new"
    /\ total_measures = 0
    /\ style = "none"
    /\ sections = << >>
    /\ mood = "none"
    /\ call = NoCall
    /\ ret = NoRet
    /\ sb_pc = "idle"
    /\ sb_in = [structured |-> FALSE, beats |-> 4, measures |-> 0]
    /\ sb_measure = 0
    /\ sb_time = 0
    /\ sb_pattern = << >>
    /\ sb_idx = 0
    /\ sb_events = << >>
    /\ sb_late = 0
    /\ rh_pc = "idle"
    /\ rh_in = [structured |-> FALSE, style |-> "none", beats |-> 4,
                swing |-> 0, measures |-> 0]
    /\ rh_measure = 0
    /\ rh_time = 0
    /\ rh_history = << >>
    /\ rh_pattern = "none"
    /\ rh_modified = << >>
    /\ rh_events = << >>
    /\ bl_pc = "idle"
    /\ bl_in = [structured |-> FALSE, style |-> "none", measures |-> 0]
    /\ bl_calls = 0
    /\ bl_measure = 0
    /\ bl_time = 0
    /\ bl_riff = "none"
    /\ bl_counter = 0
    /\ bl_history = << >>
    /\ bl_selected = FALSE
    /\ bl_varied = << >>
    /\ bl_events = << >>
    /\ bl_fresh = [history |-> << >>, riff |-> "none", events |-> << >>]
    /\ ld_pc = "idle"
    /\ ld_in = [structured |-> FALSE, measures |-> 0]
    /\ ld_phrase = 0
    /\ ld_measure = 0
    /\ ld_style = "none"
    /\ ld_events = << >>
    /\ ac_pc = "idle"
    /\ ac_in = [structured |-> FALSE, style |-> "none", measures |-> 0]
    /\ ac_measure = 0
    /\ ac_time = 0
    /\ ac_played = FALSE
    /\ ac_skipped = 0
    /\ ac_events = << >>
    /\ song = 1

\* SongStructure.__init__ for a track length of Totals and a style of
\* StyleSet.  (current_key, drawn from KEYS, is read by no query and is left
\* out.)
ConstructWith(Totals, StyleSet) ==
    /\ pc = "new"
    /\ \E tm \in Totals, s \in StyleSet :
        /\ total_measures' = tm
        /\ style' = s
        /\ sections' = _create_structure(tm, s)
        /\ \E md \in style_moods(s) : mood' = md
    /\ pc' = "built"
    /\ UNCHANGED <<queryVars, subBassVars, genVars>>

ConstructFrom(Totals) == ConstructWith(Totals, Styles)

Construct == ConstructFrom(1 .. MaxMeasures)

QueryMeasures == (0 - MaxOut) .. (total_measures + MaxOut - 1)

GetSection ==
    /\ pc = "built" /\ call.op = "none"
    /\ \E m \in QueryMeasures :
        /\ call' = [NoCall EXCEPT !.op = "get_section", !.measure = m]
        /\ ret' = [NoRet EXCEPT !.section = get_section(sections, m)]
    /\ UNCHANGED <<structVars, subBassVars, genVars>>

GetIntensity ==
    /\ pc = "built" /\ call.op = "none"
    /\ \E m \in QueryMeasures :
        /\ call' = [NoCall EXCEPT !.op = "get_intensity", !.measure = m]
        /\ ret' = [NoRet EXCEPT !.num = get_intensity(sections, m).num,
                                !.den = get_intensity(sections, m).den]
    /\ UNCHANGED <<structVars, subBassVars, genVars>>

GetHarmonicContext ==
    /\ pc = "built" /\ call.op = "none"
    /\ \E m \in QueryMeasures :
        LET c == get_harmonic_context(sections, mood, m) IN
        /\ call' = [NoCall EXCEPT !.op = "get_harmonic_context", !.measure = m]
        /\ ret' = [NoRet EXCEPT !.chord = c.chord, !.key = c.key,
                                !.num = c.intensity.num, !.den = c.intensity.den,
                                !.section = get_section(sections, m)]
    /\ UNCHANGED <<structVars, subBassVars, genVars>>

\* The query has returned; the structure is ready for the next one.
Return ==
    /\ pc = "built" /\ call.op # "none"
    /\ call' = NoCall
    /\ ret' = NoRet
    /\ UNCHANGED <<structVars, subBassVars, genVars>>

Next == Construct \/ GetSection \/ GetIntensity \/ GetHarmonicContext \/ Return

Spec == Init /\ [][Next]_vars

\* The draws of random.uniform(-0.1, 0.1) and random.uniform(-0.05, 0.05),
\* in thousandths.
WideJitter == {-100, 0, 100}
NarrowJitter == {-50, 0, 50}

BaseVelocities == {-MaxBase, 0, 1, 80, 127, MaxBase}

GetVelocityCurve ==
    /\ pc = "built" /\ call.op = "none"
    /\ \E m \in QueryMeasures, b \in BaseVelocities,
          j1 \in WideJitter, j2 \in NarrowJitter :
        /\ call' = [NoCall EXCEPT !.op = "get_velocity_curve",
                                  !.measure = m, !.base = b]
        /\ ret' = [NoRet EXCEPT
                    !.velocity = get_velocity_curve(sections, m, b, j1, j2),
                    !.section = get_section(sections, m)]
    /\ UNCHANGED <<structVars, subBassVars, genVars>>

NextVelocity == Construct \/ GetVelocityCurve \/ Return

SpecVelocity == Init /\ [][NextVelocity]_vars

----------------------------------------------------------------------------
(* SubBassGenerator: generators/sub_bass.py *)

\* A pattern entry is <<beat_offset, duration_beats, note, velocity>> with
\* the two times in ticks (sixteenths of a beat); an event is
\* <<time, note, velocity>>.
TicksPerBeat == 16

SubBass_key_roots ==
    [A_minor |-> 21, D_minor |-> 26, E_minor |-> 28, F_minor |-> 29, G_minor |-> 31]

SubBass_chord_offsets ==
    [i |-> 0, ii |-> 2, III |-> 3, iv |-> 5, V |-> 7, VI |-> 8, VII |-> 10,
     bVII |-> 10]

\* SubBassGenerator._get_root_note; a key or chord missing from its table
\* gets the default.
SubBass_get_root_note(context) ==
    LET root == IF context.key \in DOMAIN SubBass_key_roots
                THEN SubBass_key_roots[context.key] ELSE 21
        offset == IF context.chord \in DOMAIN SubBass_chord_offsets
                  THEN SubBass_chord_offsets[context.chord] ELSE 0
    IN  root + offset

\* _should_play_sub_bass; draw is the outcome of the branch's random test.
_should_play_sub_bass(measure, draw) ==
    IF measure % 8 = 7 THEN draw
    ELSE IF measure % 16 = 15 THEN FALSE
    ELSE IF measure % 32 = 31 THEN FALSE
    ELSE IF measure < 8 THEN draw
    ELSE IF measure < 16 THEN draw
    ELSE IF measure < 32 THEN draw
    ELSE draw

\* The list patterns of _create_simple_pattern.
_create_simple_pattern(root, fifth, beats) ==
    IF beats = 3 THEN
        << << <<0, 48, root, 65>> >>,
           << <<0, 24, root, 70>>, <<24, 24, root, 60>> >>,
           << <<0, 32, root, 70>>, <<32, 16, fifth, 65>> >> >>
    ELSE IF beats = 5 THEN
        << << <<0, 80, root, 65>> >>,
           << <<0, 48, root, 70>>, <<48, 32, root, 60>> >>,
           << <<0, 32, root, 70>>, <<32, 48, fifth, 65>> >> >>
    ELSE IF beats = 7 THEN
        << << <<0, 112, root, 65>> >>,
           << <<0, 32, root, 70>>, <<32, 32, root, 65>>, <<64, 48, fifth, 60>> >>,
           << <<0, 48, root, 70>>, <<48, 32, root, 65>>, <<80, 32, fifth, 60>> >> >>
    ELSE
        \* beats, beats/2, beats*0.875, beats*0.9375, beats*0.0625 in ticks
        << << <<0, 16 * beats, root, 65>> >>,
           << <<0, 8 * beats, root, 70>>, <<8 * beats, 8 * beats, root, 60>> >>,
           << <<0, 14 * beats, root, 65>>, <<15 * beats, beats, root, 50>> >>,
           << <<0, 8 * beats, root, 70>>, <<8 * beats, 8 * beats, fifth, 65>> >> >>

\* The list patterns of _create_pumping_pattern:
\* simple_pump, varied_pump, velocity_pump.
_create_pumping_pattern(root, beats) ==
    << [k \in 1 .. beats |-> <<16 * (k - 1), 12, root, 75>>],
       [k \in 1 .. (2 * beats - 1) |->
            IF k % 2 = 1
            THEN <<16 * ((k - 1) \div 2), 8, root, 85 - ((k - 1) \div 2) * 5>>
            ELSE <<16 * ((k - 2) \div 2) + 12, 4, root, 45>>],
       [k \in 1 .. beats |-> <<16 * (k - 1), 16, root, 75 - (k - 1) * 5>>] >>

\* The list patterns of _create_movement_pattern (half = beats / 2).
_create_movement_pattern(root, fifth, beats) ==
    << << <<0, 8 * beats, root, 70>>, <<8 * beats, 8 * beats, fifth, 65>> >>,
       [k \in 1 .. beats |->
            <<16 * (k - 1), 16, IF (k - 1) % 2 = 0 THEN root ELSE fifth,
              70 - (k - 1) * 2>>] >>

\* The list patterns of _create_sparse_pattern.
_create_sparse_pattern(root) ==
    << << <<0, 16, root, 60>> >>,
       << <<0, 8, root, 65>>, <<48, 16, root, 55>> >>,
       << <<0, 128, root, 50>> >> >>

\* _generate_sub_bass_pattern, up to the random.choice among the list it
\* returns here; pump is the outcome of random.random() < 0.7.
_generate_sub_bass_pattern(measure, root, fifth, beats, pump) ==
    IF measure < 32 THEN _create_simple_pattern(root, fifth, beats)
    ELSE IF measure < 128 THEN
        IF pump THEN _create_pumping_pattern(root, beats)
        ELSE _create_movement_pattern(root, fifth, beats)
    ELSE _create_sparse_pattern(root)

\* The release velocity with the scale written 60..100.
release_velocity_wide(final_velocity) ==
    TruncDiv(60 * 127 + final_velocity * 40, 127)

\* release_velocity = int(60 + (final_velocity / 127.0) * 20)
release_velocity(final_velocity) ==
    TruncDiv(60 * 127 + final_velocity * 20, 127)

\* The two events one pattern entry appends, rendered at current_time with
\* the velocity final_velocity.
SubBass_entry_events(entry, current_time, final_velocity) ==
    LET note_time == current_time + entry[1]
        note_off_time == note_time + entry[2]
    IN  << <<note_time, entry[3], final_velocity>>,
           <<note_off_time, entry[3], release_velocity(final_velocity)>> >>

\* The context generate uses without a SongStructure.
SubBass_default_context == [key |-> "A_minor", chord |-> "i"]

SubBassMeasureDuration == sb_in.beats * TicksPerBeat

\* How far after current_time the last event of the list events lies.
SubBassLate ==
    IF sb_events = << >> THEN sb_late
    ELSE Max(0, sb_events[Len(sb_events)][1] - sb_time)

\* SubBassGenerator(song_structure, time_signature).generate(measures, tempo)
\* is called: with the structure built, for its total_measures (main.py), or
\* without a structure.
SubBassGenerate ==
    /\ sb_pc = "idle"
    /\ \E beats \in 1 .. MaxNumerator :
        \/ /\ pc = "built"
           /\ sb_in' = [structured |-> TRUE, beats |-> beats,
                        measures |-> total_measures]
        \/ /\ pc = "new"
           /\ \E n \in {1, MaxLongMeasures} :
                sb_in' = [structured |-> FALSE, beats |-> beats, measures |-> n]
    /\ sb_pc' = "measure"
    /\ sb_measure' = 0
    /\ sb_time' = 0
    /\ sb_pattern' = << >>
    /\ sb_idx' = 0
    /\ sb_events' = << >>
    /\ sb_late' = 0
    /\ UNCHANGED <<genVars, structVars, queryVars>>

\* The measure is left silent: the clock advances.
SubBassSkip ==
    /\ sb_time' = sb_time + SubBassMeasureDuration
    /\ sb_measure' = sb_measure + 1
    /\ sb_pattern' = << >>
    /\ sb_idx' = 0
    /\ sb_events' = << >>
    /\ sb_late' = Max(0, SubBassLate - SubBassMeasureDuration)
    /\ UNCHANGED sb_pc

\* The head of the loop body: context, gates and the choice of the pattern.
SubBassMeasure ==
    /\ sb_pc = "measure" /\ sb_measure < sb_in.measures
    /\ \E gate \in BOOLEAN, present \in BOOLEAN, pump \in BOOLEAN :
        LET context ==
                IF sb_in.structured
                THEN get_harmonic_context(sections, mood, sb_measure)
                ELSE SubBass_default_context
            should_play ==
                IF sb_in.structured
                THEN should_play_instrument(sections, sb_measure, "sub_bass", gate)
                ELSE TRUE
            root_note == SubBass_get_root_note(context)
            fifth_note == root_note + 7
            patterns == _generate_sub_bass_pattern(
                            sb_measure, root_note, fifth_note, sb_in.beats, pump)
        IN  IF ~should_play THEN SubBassSkip
            ELSE IF ~_should_play_sub_bass(sb_measure, present) THEN SubBassSkip
            ELSE /\ \E c \in 1 .. Len(patterns) : sb_pattern' = patterns[c]
                 /\ sb_pc' = "entry"
                 /\ sb_idx' = 0
                 /\ sb_events' = << >>
                 /\ UNCHANGED <<sb_measure, sb_time, sb_late>>
    /\ UNCHANGED <<genVars, structVars, queryVars, sb_in>>

\* One turn of the loop over the pattern: a note-on and its note-off.
SubBassEntry ==
    /\ sb_pc = "entry" /\ sb_idx < Len(sb_pattern)
    /\ LET entry == sb_pattern[sb_idx + 1] IN
        \E j1 \in WideJitter, j2 \in NarrowJitter :
            LET final_velocity ==
                    IF sb_in.structured
                    THEN get_velocity_curve(sections, sb_measure, entry[4], j1, j2)
                    ELSE entry[4]
            IN  sb_events' = SubBass_entry_events(entry, sb_time, final_velocity)
    /\ sb_idx' = sb_idx + 1
    /\ sb_late' = SubBassLate
    /\ UNCHANGED <<genVars, structVars, queryVars, sb_pc, sb_in, sb_measure, sb_time,
                   sb_pattern>>

\* The pattern is rendered: current_time += measure_duration.
SubBassEndMeasure ==
    /\ sb_pc = "entry" /\ sb_idx = Len(sb_pattern)
    /\ sb_time' = sb_time + SubBassMeasureDuration
    /\ sb_measure' = sb_measure + 1
    /\ sb_pc' = "measure"
    /\ sb_pattern' = << >>
    /\ sb_idx' = 0
    /\ sb_events' = << >>
    /\ sb_late' = Max(0, SubBassLate - SubBassMeasureDuration)
    /\ UNCHANGED <<genVars, structVars, queryVars, sb_in>>

\* return events
SubBassReturn ==
    /\ sb_pc = "measure" /\ sb_measure = sb_in.measures
    /\ sb_pc' = "done"
    /\ UNCHANGED <<genVars, structVars, queryVars, sb_in, sb_measure, sb_time,
                   sb_pattern, sb_idx, sb_events, sb_late>>

\* The structure a sub-bass track is generated with.
SubBassConstruct ==
    /\ sb_pc = "idle"
    /\ ConstructFrom({1, MaxSubMeasures})

NextSubBass ==
    \/ SubBassConstruct
    \/ SubBassGenerate
    \/ SubBassMeasure
    \/ SubBassEntry
    \/ SubBassEndMeasure
    \/ SubBassReturn

SpecSubBass == Init /\ [][NextSubBass]_vars

----------------------------------------------------------------------------
(* RhythmGenerator: generators/rhythm.py *)

\* A time of the rhythm, bassline and accompaniment generators is kept in
\* units of 1/UnitsPerBeat beat, fine enough for a sixteenth-note step, a
\* quarter of a step, a triplet and a swing delay in hundredths of a step.
UnitsPerBeat == 4800

\* `sub in name` for the substrings the generators test, over the section
\* names the templates use.
name_has(n, sub) ==
    CASE sub = "intro" -> n = "intro"
      [] sub = "outro" -> n = "outro"
      [] sub = "buildup" -> n \in {"buildup", "buildup1", "buildup2"}
      [] sub = "drop" -> n \in {"drop", "drop1", "drop2"}
      [] sub = "main" -> n \in {"main", "main1", "main2"}
      [] sub = "verse" -> n \in {"verse1", "verse2", "verse3"}
      [] sub = "breakdown" -> n = "breakdown"
      [] sub = "break" -> n \in {"breakdown", "break"}
      [] OTHER -> FALSE

\* A pattern maps a voice to its sixteen steps (step k is element k + 1).
RhythmGenerator_patterns ==
    [minimal |->
        [bd |-> <<1, 0, 0, 0, 0, 0, 0, 0, 1, 0, 0, 0, 0, 0, 0, 0>>,
         sd |-> <<0, 0, 0, 0, 0, 0, 0, 0, 0, 0, 0, 0, 1, 0, 0, 0>>,
         clap |-> <<0, 0, 0, 0, 0, 0, 0, 0, 0, 0, 0, 0, 0, 0, 0, 0>>,
         hh |-> <<0, 0, 1, 0, 0, 0, 1, 0, 0, 0, 1, 0, 0, 0, 0, 0>>,
         oh |-> <<0, 0, 0, 0, 0, 0, 0, 0, 0, 0, 0, 0, 0, 0, 1, 0>>,
         shaker |-> <<0, 0, 0, 1, 0, 0, 0, 1, 0, 0, 0, 1, 0, 0, 0, 1>>,
         rim |-> <<0, 0, 0, 0, 0, 1, 0, 0, 0, 0, 0, 0, 0, 0, 0, 0>>],
     driving |->
        [bd |-> <<1, 0, 0, 0, 1, 0, 0, 0, 1, 0, 0, 0, 1, 0, 0, 0>>,
         sd |-> <<0, 0, 0, 0, 1, 0, 0, 0, 0, 0, 0, 0, 1, 0, 0, 0>>,
         clap |-> <<0, 0, 0, 0, 0, 0, 0, 1, 0, 0, 0, 0, 0, 0, 0, 1>>,
         hh |-> <<0, 1, 0, 1, 0, 1, 0, 1, 0, 1, 0, 1, 0, 1, 0, 1>>,
         oh |-> <<0, 0, 0, 0, 0, 0, 1, 0, 0, 0, 0, 0, 0, 0, 1, 0>>,
         shaker |-> <<1, 0, 1, 0, 1, 0, 1, 0, 1, 0, 1, 0, 1, 0, 1, 0>>,
         tambourine |-> <<0, 0, 0, 1, 0, 0, 0, 0, 0, 0, 0, 1, 0, 0, 0, 0>>,
         ride |-> <<0, 0, 1, 0, 0, 0, 1, 0, 0, 0, 1, 0, 0, 0, 0, 0>>],
     complex |->
        [bd |-> <<1, 0, 0, 1, 0, 0, 1, 0, 1, 0, 0, 0, 1, 0, 1, 0>>,
         sd |-> <<0, 0, 1, 0, 0, 0, 0, 0, 0, 0, 1, 0, 0, 0, 0, 0>>,
         clap |-> <<0, 0, 0, 0, 1, 0, 0, 0, 0, 0, 0, 0, 1, 0, 0, 0>>,
         hh |-> <<1, 1, 0, 1, 0, 1, 1, 0, 1, 1, 0, 1, 0, 1, 1, 0>>,
         oh |-> <<0, 0, 0, 0, 0, 0, 0, 1, 0, 0, 0, 0, 0, 0, 0, 1>>,
         shaker |-> <<1, 0, 1, 1, 0, 1, 0, 1, 1, 0, 1, 1, 0, 1, 0, 1>>,
         cowbell |-> <<0, 0, 0, 0, 0, 1, 0, 0, 0, 0, 0, 0, 0, 1, 0, 0>>,
         rim |-> <<0, 0, 0, 1, 0, 0, 0, 0, 0, 0, 0, 1, 0, 0, 0, 0>>,
         pedal_hh |-> <<0, 1, 0, 0, 1, 0, 0, 1, 0, 1, 0, 0, 1, 0, 0, 0>>],
     breakbeat |->
        [bd |-> <<1, 0, 0, 0, 0, 0, 1, 0, 0, 1, 0, 0, 1, 0, 0, 0>>,
         sd |-> <<0, 0, 0, 0, 1, 0, 0, 0, 0, 0, 1, 0, 0, 0, 1, 0>>,
         clap |-> <<0, 0, 0, 0, 0, 0, 0, 0, 1, 0, 0, 0, 0, 0, 0, 0>>,
         hh |-> <<1, 0, 1, 1, 0, 1, 0, 1, 1, 0, 1, 0, 1, 1, 0, 1>>,
         oh |-> <<0, 0, 0, 0, 0, 0, 1, 0, 0, 0, 0, 0, 0, 1, 0, 0>>,
         shaker |-> <<0, 1, 0, 1, 0, 1, 0, 1, 0, 1, 0, 1, 0, 1, 0, 1>>,
         tambourine |-> <<0, 0, 1, 0, 0, 0, 1, 0, 0, 0, 1, 0, 0, 0, 0, 0>>,
         ride |-> <<1, 0, 0, 1, 0, 0, 0, 1, 1, 0, 0, 0, 1, 0, 0, 0>>,
         crash |-> <<1, 0, 0, 0, 0, 0, 0, 0, 0, 0, 0, 0, 0, 0, 0, 0>>],
     rolling |->
        [bd |-> <<1, 0, 1, 0, 1, 0, 1, 0, 1, 0, 1, 0, 1, 0, 1, 0>>,
         sd |-> <<0, 1, 0, 1, 0, 1, 0, 1, 0, 1, 0, 1, 0, 1, 0, 1>>,
         clap |-> <<0, 0, 1, 0, 0, 0, 1, 0, 0, 0, 1, 0, 0, 0, 1, 0>>,
         hh |-> <<1, 1, 1, 1, 1, 1, 1, 1, 1, 1, 1, 1, 1, 1, 1, 1>>,
         oh |-> <<0, 0, 0, 0, 0, 0, 0, 0, 0, 0, 0, 0, 0, 0, 0, 0>>,
         shaker |-> <<1, 1, 1, 1, 1, 1, 1, 1, 1, 1, 1, 1, 1, 1, 1, 1>>,
         tambourine |-> <<0, 0, 0, 1, 0, 0, 0, 1, 0, 0, 0, 1, 0, 0, 0, 1>>,
         cowbell |-> <<0, 1, 0, 0, 0, 1, 0, 0, 0, 1, 0, 0, 0, 1, 0, 0>>,
         ride_bell |-> <<1, 0, 0, 0, 1, 0, 0, 0, 1, 0, 0, 0, 1, 0, 0, 0>>]]

\* list(self.patterns.keys())
RhythmGenerator_pattern_names ==
    <<"minimal", "driving", "complex", "breakbeat", "rolling">>

\* MusicStyle.rhythm_patterns of the catalog; without a style, every pattern.
rhythm_patterns(s) ==
    CASE s = "house" -> <<"driving", "minimal">>
      [] s = "techno" -> <<"driving", "complex", "minimal">>
      [] s = "hard-tekno" -> <<"driving", "rolling", "complex">>
      [] s = "breakbeat" -> <<"breakbeat", "complex">>
      [] s = "idm" -> <<"complex", "breakbeat", "minimal">>
      [] s = "jungle" -> <<"breakbeat", "complex", "rolling">>
      [] s = "hip-hop" -> <<"minimal", "breakbeat">>
      [] s = "trap" -> <<"minimal", "rolling">>
      [] s = "ambient" -> <<"minimal">>
      [] s = "drum&bass" -> <<"breakbeat", "complex", "rolling">>
      [] OTHER -> RhythmGenerator_pattern_names

\* [p for p in preferred if p in allowed]
Preferred(preferred, allowed) == SelectSeq(preferred, LAMBDA p : p \in allowed)

\* _choose_pattern_for_section: the list random.choice draws from (a list of
\* one name where the code returns it without a draw).  section is the name
\* of the section, "none" without a SongStructure; intensity is num / den in
\* hundredths.
_choose_pattern_for_section(section, intensity, measure, s) ==
    LET preferred_patterns == rhythm_patterns(s)
        below(h) == intensity.num < h * intensity.den
        default ==
            IF measure < 8 THEN <<"minimal">>
            ELSE IF measure < 32
            THEN LET options == Preferred(preferred_patterns, {"driving", "complex"})
                 IN  IF options # << >> THEN options ELSE preferred_patterns
            ELSE preferred_patterns
    IN  IF section = "none" THEN default
        ELSE IF name_has(section, "intro") \/ name_has(section, "outro")
        THEN LET options == Preferred(preferred_patterns, {"minimal", "driving"})
             IN  (IF options # << >> THEN options ELSE <<"minimal">>)
                 \o <<"minimal">>
        ELSE IF name_has(section, "buildup")
        THEN IF below(40) THEN <<"minimal">>
             ELSE IF below(60)
             THEN LET options == Preferred(preferred_patterns, {"driving", "minimal"})
                  IN  IF options # << >> THEN options ELSE <<"driving">>
             ELSE LET options == Preferred(preferred_patterns,
                                           {"complex", "rolling", "breakbeat"})
                  IN  IF options # << >> THEN options ELSE <<"complex", "rolling">>
        ELSE IF name_has(section, "drop") \/ name_has(section, "main")
                \/ name_has(section, "verse")
        THEN preferred_patterns
        ELSE IF name_has(section, "breakdown") \/ name_has(section, "break")
        THEN LET options == Preferred(preferred_patterns, {"minimal", "breakbeat"})
             IN  IF options # << >> THEN options ELSE <<"minimal", "breakbeat">>
        ELSE default

\* The anti-repetition rule of generate: the names random.choice draws the
\* pattern of the measure from once `pattern` is chosen, and the history
\* after the measure.
RepeatsFour_long(pattern_history, pattern) ==
    /\ Len(pattern_history) > 4
    /\ \A i \in (Len(pattern_history) - 3) .. Len(pattern_history) :
            pattern_history[i] = pattern

RepeatsFour(pattern_history, pattern) ==
    /\ Len(pattern_history) >= 4
    /\ \A i \in (Len(pattern_history) - 3) .. Len(pattern_history) :
            pattern_history[i] = pattern

avoid_repeating(pattern_history, pattern) ==
    IF RepeatsFour(pattern_history, pattern)
    THEN SelectSeq(RhythmGenerator_pattern_names, LAMBDA p : p # pattern)
    ELSE <<pattern>>

append_history(pattern_history, pattern) ==
    LET appended == Append(pattern_history, pattern)
    IN  IF Len(appended) > 8 THEN Tail(appended) ELSE appended

\* [0] * 16
Zeros16 == [i \in 1 .. 16 |-> 0]

\* pattern[voice] = row: the voice is added when the pattern lacks it.
SetRow(p, voice, row) == (voice :> row) @@ p

\* row with the steps of `steps` (0-based) set to bit.
WithSteps(row, steps, bit) ==
    [i \in 1 .. 16 |-> IF (i - 1) \in steps THEN bit ELSE row[i]]

\* row[:n] + last
KeepFirst(row, n, last) == SubSeq(row, 1, n) \o last

\* The outcome of a step that can raise: ok is FALSE when the code raises
\* (KeyError on a voice the pattern lacks).
Done(p) == [ok |-> TRUE, p |-> p]
Raised(p) == [ok |-> FALSE, p |-> p]

\* The three tom voices set to [0] * 16.
InitToms(p) ==
    SetRow(SetRow(SetRow(p, "high_tom", Zeros16), "mid_tom", Zeros16),
           "low_tom", Zeros16)

\* _is_section_transition
_is_section_transition(structured, secs, tm, measure) ==
    IF ~structured THEN FALSE
    ELSE IF measure = 0 THEN FALSE
    ELSE LET current_section == secs[get_section(secs, measure)]
             prev_section == secs[get_section(secs, measure - 1)]
         IN  IF current_section # prev_section THEN TRUE
             ELSE IF measure + 1 < tm
             THEN current_section # secs[get_section(secs, measure + 1)]
             ELSE FALSE

\* _choose_fill_type: the list random.choice draws from.
fill_styles(style_name) ==
    CASE style_name = "house" -> <<"tom_roll", "snare_build", "light_percussion">>
      [] style_name = "techno" -> <<"tom_roll", "snare_build", "crash_accent">>
      [] style_name = "hard-tekno" ->
            <<"aggressive_roll", "double_snare", "crash_accent">>
      [] style_name = "breakbeat" ->
            <<"snare_roll", "tom_cascade", "light_percussion">>
      [] style_name = "idm" -> <<"glitch_fill", "tom_scatter", "sparse_accent">>
      [] style_name = "jungle" -> <<"snare_roll", "tom_cascade", "aggressive_roll">>
      [] style_name = "hip-hop" ->
            <<"snare_triplet", "light_percussion", "sparse_accent">>
      [] style_name = "trap" -> <<"snare_roll", "crash_accent", "sparse_accent">>
      [] style_name = "ambient" ->
            <<"sparse_accent", "light_percussion", "cymbal_swell">>
      [] style_name = "drum&bass" ->
            <<"snare_roll", "aggressive_roll", "tom_cascade">>
      [] OTHER -> <<"tom_roll", "snare_build", "crash_accent">>

_choose_fill_type(s, intensity, major) ==
    LET style_name == IF s = "none" THEN "techno" ELSE s
        available_fills == fill_styles(style_name)
        intense_fills == <<"aggressive_roll", "snare_roll", "tom_cascade",
                           "double_snare">>
        subtle_fills == <<"light_percussion", "sparse_accent", "cymbal_swell">>
        among(fills) ==
            LET kept == SelectSeq(available_fills,
                                  LAMBDA f : \E i \in 1 .. Len(fills) : fills[i] = f)
            IN  IF kept # << >> THEN kept ELSE fills
    IN  IF major /\ intensity.num > 70 * intensity.den THEN among(intense_fills)
        ELSE IF intensity.num < 40 * intensity.den THEN among(subtle_fills)
        ELSE available_fills

\* _generate_fill.  test is the outcome of its random tests, voice the index
\* random.choice(['sd', 'rim', 'high_tom']) draws (the same for each of the
\* last four steps).
_generate_fill(pattern, fill_type, test, voice) ==
    LET cleared == InitToms([pattern EXCEPT
                        !["hh"] = WithSteps(@, 12 .. 15, 0),
                        !["oh"] = WithSteps(@, 12 .. 15, 0)])
    IN  CASE fill_type = "tom_roll" ->
                Done([cleared EXCEPT
                        !["high_tom"] = WithSteps(@, {12, 13}, 1),
                        !["mid_tom"] = WithSteps(@, {13, 14}, 1),
                        !["low_tom"] = WithSteps(@, {14, 15}, 1)])
          [] fill_type = "tom_cascade" ->
                Done([cleared EXCEPT
                        !["high_tom"] = WithSteps(Zeros16, {10, 12, 13, 15}, 1),
                        !["mid_tom"] = WithSteps(Zeros16, {11, 13, 15}, 1),
                        !["low_tom"] = WithSteps(Zeros16, {13, 14, 15}, 1)])
          [] fill_type = "snare_roll" ->
                Done([cleared EXCEPT !["sd"] = KeepFirst(@, 12, <<1, 1, 1, 1>>)])
          [] fill_type = "snare_build" ->
                Done([cleared EXCEPT
                        !["sd"] = KeepFirst(@, 12, <<1, 0, 1, 1>>),
                        !["clap"] = KeepFirst(@, 12, <<0, 1, 1, 1>>)])
          [] fill_type = "aggressive_roll" ->
                Done([cleared EXCEPT
                        !["sd"] = KeepFirst(@, 10, <<1, 1, 1, 1, 1, 1>>),
                        !["high_tom"] = WithSteps(Zeros16, {12, 14}, 1),
                        !["low_tom"] = WithSteps(Zeros16, {14, 15}, 1)])
          [] fill_type = "double_snare" ->
                Done([cleared EXCEPT
                        !["sd"] = KeepFirst(@, 12, <<1, 1, 0, 1>>),
                        !["clap"] = KeepFirst(@, 12, <<1, 1, 0, 1>>)])
          [] fill_type = "snare_triplet" ->
                Done([cleared EXCEPT !["sd"] = KeepFirst(@, 12, <<1, 0, 1, 0>>)])
          [] fill_type = "light_percussion" ->
                Done(SetRow(SetRow(cleared, "rim", WithSteps(Zeros16, {12, 14}, 1)),
                            "tambourine", WithSteps(Zeros16, {14, 15}, 1)))
          [] fill_type = "crash_accent" ->
                Done([SetRow(cleared, "crash", WithSteps(Zeros16, {15}, 1)) EXCEPT
                        !["sd"] = KeepFirst(@, 14, <<1, 0>>)])
          [] fill_type = "sparse_accent" ->
                Done(SetRow(cleared, "rim", WithSteps(Zeros16, {14}, 1)))
          [] fill_type = "cymbal_swell" ->
                Done(SetRow(SetRow(cleared, "crash", WithSteps(Zeros16, {14}, 1)),
                            "ride", WithSteps(Zeros16, {13, 15}, 1)))
          [] fill_type = "glitch_fill" ->
                LET choice == <<"sd", "rim", "high_tom">>[voice]
                IN  IF ~test THEN Done(cleared)
                    ELSE IF choice \notin DOMAIN cleared THEN Raised(cleared)
                    ELSE Done([cleared EXCEPT
                                ![choice] = WithSteps(@, 12 .. 15, 1)])
          [] fill_type = "tom_scatter" ->
                Done([cleared EXCEPT
                        !["high_tom"] = WithSteps(WithSteps(@, {12}, 1), {15},
                                                  IF test THEN 1 ELSE 0),
                        !["mid_tom"] = WithSteps(@, {13}, IF test THEN 1 ELSE 0),
                        !["low_tom"] = WithSteps(@, {14}, 1)])
          [] OTHER -> Done(cleared)

\* _add_light_fill
_add_light_fill(pattern, rim_test, tom_test) ==
    LET toms == InitToms(pattern)
        rimmed ==
            IF rim_test
            THEN SetRow(toms, "rim",
                        WithSteps(IF "rim" \in DOMAIN toms THEN toms["rim"]
                                  ELSE Zeros16, {14}, 1))
            ELSE toms
    IN  IF tom_test
        THEN [rimmed EXCEPT !["low_tom"] = WithSteps(@, {15}, 1)]
        ELSE rimmed

\* _add_hihat_rolls, without the "_hihat_roll" mark it leaves for the
\* velocity ramp.  roll is the index random.choice draws the roll type with.
_add_hihat_rolls(pattern, measure, intensity, style_name, test, roll) ==
    LET decided ==
            IF style_name = "trap"
            THEN IF measure % 4 = 3
                 THEN [should_roll |-> test,
                       roll_type |-> <<"short", "medium", "long">>[roll]]
                 ELSE [should_roll |-> test, roll_type |-> "short"]
            ELSE IF measure % 2 = 1
                 THEN [should_roll |-> test,
                       roll_type |-> <<"medium", "long", "ultra">>[roll]]
                 ELSE [should_roll |-> intensity.num > 70 * intensity.den /\ test,
                       roll_type |-> "short"]
        steps ==
            CASE decided.roll_type = "short" -> 12 .. 15
              [] decided.roll_type = "medium" -> {8, 10} \cup (12 .. 15)
              [] decided.roll_type = "long" -> {4, 7, 8, 10} \cup (12 .. 15)
              [] OTHER -> 8 .. 15
    IN  IF ~decided.should_roll THEN pattern
        ELSE [pattern EXCEPT !["hh"] = WithSteps(@, steps, 1)]

\* A row given as the set of its steps.
Row(steps) == WithSteps(Zeros16, steps, 1)

\* _add_style_percussion.  test is the outcome of its random tests, bit the
\* value its random.randint(0, 1) draws, roll the roll type index.
_add_style_percussion(pattern, measure, intensity, s, test, bit, roll) ==
    CASE s = "none" -> pattern
      [] s = "house" ->
            LET congas ==
                    IF measure % 2 = 0 /\ test
                    THEN SetRow(SetRow(pattern, "conga_low", Row({2, 7, 10})),
                                "conga_high", Row({3, 11}))
                    ELSE pattern
                bongos ==
                    IF test
                    THEN SetRow(SetRow(congas, "bongo_hi", Row({5, 13})),
                                "bongo_low", Row({6, 14}))
                    ELSE congas
            IN  IF test THEN SetRow(bongos, "claves", Row({2, 10})) ELSE bongos
      [] s = "techno" ->
            LET cowbell == IF test THEN SetRow(pattern, "cowbell", Row({7}))
                           ELSE pattern
            IN  IF measure % 4 = 3 /\ test
                THEN SetRow(cowbell, "wood_block", Row({3, 11}))
                ELSE cowbell
      [] s = "hard-tekno" ->
            LET cowbell == SetRow(pattern, "cowbell", Row({1, 5, 9, 13}))
                wood == IF test
                        THEN SetRow(cowbell, "wood_block",
                                    Row({0, 2, 4, 6, 8, 10, 12, 14}))
                        ELSE cowbell
            IN  IF intensity.num > 70 * intensity.den
                THEN SetRow(wood, "claves", Row({2, 3, 6, 7, 10, 11, 14, 15}))
                ELSE wood
      [] s = "breakbeat" ->
            LET cowbell == IF test THEN SetRow(pattern, "cowbell", Row({3, 11}))
                           ELSE pattern
            IN  IF test THEN SetRow(cowbell, "conga_high", Row({4, 12}))
                ELSE cowbell
      [] s = "idm" ->
            IF test
            THEN SetRow(SetRow(pattern, "wood_block", [i \in 1 .. 16 |-> bit]),
                        "claves", [i \in 1 .. 16 |-> bit])
            ELSE pattern
      [] s \in {"jungle", "drum&bass"} ->
            LET congas ==
                    IF test
                    THEN SetRow(SetRow(pattern, "conga_low", Row({1, 5, 9, 13})),
                                "conga_high", Row({0, 3, 6, 8, 11, 14}))
                    ELSE pattern
                agogos ==
                    IF test
                    THEN SetRow(SetRow(congas, "agogo_hi", Row({2, 6, 10})),
                                "agogo_low", Row({3, 7, 11}))
                    ELSE congas
            IN  _add_hihat_rolls(agogos, measure, intensity, s, test, roll)
      [] s = "hip-hop" ->
            IF measure % 4 = 0 /\ test THEN SetRow(pattern, "cowbell", Row({7}))
            ELSE pattern
      [] s = "trap" ->
            LET rolled == _add_hihat_rolls(pattern, measure, intensity, s, test, roll)
            IN  IF test THEN SetRow(rolled, "cowbell", Row({13})) ELSE rolled
      [] s = "ambient" ->
            LET triangle == IF test THEN SetRow(pattern, "triangle", Row({7}))
                            ELSE pattern
            IN  IF test THEN SetRow(triangle, "chimes", Row({12})) ELSE triangle
      [] OTHER -> pattern

\* The draws of one measure of RhythmGenerator.generate: the outcome of the
\* random tests of each stage and the index of each random.choice.
\*   mod, mod2: the tests of _apply_section_modifications
\*   tom, tom2: the tests of _add_tom_patterns and of the fill it adds
\*   perc, bit, roll: the draws of _add_style_percussion
\*   fill, voice: the fill type and the voice of a glitch fill

\* _add_tom_patterns
_add_tom_patterns(pattern, structured, secs, tm, measure, intensity, s, d) ==
    LET is_transition == _is_section_transition(structured, secs, tm, measure)
        filled ==
            IF is_transition \/ measure % 8 = 7
            THEN LET fills == _choose_fill_type(s, intensity, is_transition)
                 IN  _generate_fill(pattern, fills[((d.fill - 1) % Len(fills)) + 1],
                                    d.tom, d.voice)
            ELSE IF measure % 4 = 3 /\ d.tom
            THEN Done(_add_light_fill(pattern, d.tom2, d.tom2))
            ELSE LET toms == InitToms(pattern)
                 IN  IF measure % 2 = 0 /\ d.tom
                     THEN Done([toms EXCEPT
                                  !["low_tom"] = WithSteps(@, {4}, 1),
                                  !["mid_tom"] = WithSteps(@, {6}, 1),
                                  !["high_tom"] = WithSteps(@, {7}, 1)])
                     ELSE Done(toms)
    IN  IF ~filled.ok THEN filled
        ELSE Done(_add_style_percussion(filled.p, measure, intensity, s,
                                        d.perc, d.bit, d.roll))

\* _apply_section_modifications; section is a Section, or "none".
_apply_section_modifications(pattern, structured, secs, tm, measure, intensity, s, d) ==
    LET section == IF structured THEN secs[get_section(secs, measure)]
                   ELSE [name |-> "none", start_measure |-> 0, end_measure |-> 0]
        span == Max(1, section.end_measure - section.start_measure)
        offset == measure - section.start_measure
        modified ==
            IF structured /\ name_has(section.name, "buildup")
            THEN \* progress = offset / span
                 LET rolled ==
                        IF 4 * offset > 3 * span /\ d.mod2
                        THEN [pattern EXCEPT
                                !["sd"] = WithSteps(@, 12 .. 15, 1),
                                !["clap"] = WithSteps(@, 12 .. 15, 1)]
                        ELSE pattern
                 IN  IF 2 * offset > span /\ d.mod
                     THEN [rolled EXCEPT !["hh"] = WithSteps(@, 0 .. 15, 1)]
                     ELSE rolled
            ELSE IF structured /\ name_has(section.name, "drop")
            THEN [pattern EXCEPT !["bd"] = WithSteps(@, {0, 4, 8, 12}, 1)]
            ELSE IF structured /\ name_has(section.name, "breakdown")
            THEN LET kicks == IF d.mod
                              THEN [pattern EXCEPT !["bd"] = Zeros16]
                              ELSE pattern
                 IN  IF d.mod2 THEN [kicks EXCEPT !["sd"] = Zeros16] ELSE kicks
            ELSE pattern
    IN  _add_tom_patterns(modified, structured, secs, tm, measure, intensity, s, d)

\* _should_add_crash; test is the outcome of random.random() < 0.7.
_should_add_crash(structured, secs, measure, test) ==
    LET at_drop ==
            /\ structured /\ measure > 0
            /\ LET section == secs[get_section(secs, measure)]
               IN  /\ section # secs[get_section(secs, measure - 1)]
                   /\ name_has(section.name, "drop")
    IN  at_drop \/ (measure % 16 = 0 /\ measure > 0 /\ test)

\* drum_map, in the order _generate_drum_hits walks it.
drum_names ==
    <<"bd", "sd", "clap", "hh", "oh", "pedal_hh", "low_tom", "mid_tom",
      "high_tom", "crash", "ride", "ride_bell", "shaker", "tambourine",
      "cowbell", "rim", "conga_low", "conga_high", "bongo_hi", "bongo_low",
      "agogo_hi", "agogo_low", "wood_block", "claves", "triangle", "chimes">>

drum_map ==
    [bd |-> 36, sd |-> 38, clap |-> 39, hh |-> 42, oh |-> 46, pedal_hh |-> 44,
     low_tom |-> 41, mid_tom |-> 47, high_tom |-> 50, crash |-> 49, ride |-> 51,
     ride_bell |-> 53, shaker |-> 82, tambourine |-> 54, cowbell |-> 56,
     rim |-> 37, conga_low |-> 64, conga_high |-> 63, bongo_hi |-> 60,
     bongo_low |-> 61, agogo_hi |-> 67, agogo_low |-> 68, wood_block |-> 76,
     claves |-> 75, triangle |-> 81, chimes |-> 81]

\* _get_humanization_amount
_get_humanization_amount(s) ==
    CASE s = "hip-hop" -> 12
      [] s = "jungle" -> 10
      [] s = "drum&bass" -> 8
      [] s = "breakbeat" -> 10
      [] s = "idm" -> 15
      [] s = "house" -> 7
      [] s = "techno" -> 5
      [] s = "hard-tekno" -> 3
      [] s = "trap" -> 6
      [] s = "ambient" -> 8
      [] OTHER -> 5

\* _generate_drum_hits for one step.  The float product base velocity x curve
\* x intensity x accent x ghost, shaped by get_velocity_curve, is not
\* computed: shaped, its integer value, is an input; human is the draw of
\* random.randint(-humanization, humanization).
_generate_drum_hits(pattern, step, step_time, shaped, human) ==
    LET hit == SelectSeq(drum_names,
                  LAMBDA drum_name :
                      /\ drum_name \in DOMAIN pattern
                      /\ Len(pattern[drum_name]) > step
                      /\ pattern[drum_name][step + 1] = 1)
        final_vel == Max(1, Min(127, shaped + human))
    IN  [i \in 1 .. Len(hit) |-> <<step_time, drum_map[hit[i]], final_vel>>]

\* The time of a step: swing (in hundredths) delays the odd steps.
step_duration == UnitsPerBeat \div 4

rhythm_step_time_full_delay(current_time, step, swing_amount) ==
    LET step_time == current_time + step * step_duration
    IN  IF swing_amount > 0 /\ step % 2 = 1
        THEN step_time + (step_duration * swing_amount) \div 100
        ELSE step_time

rhythm_step_time(current_time, step, swing_amount) ==
    LET step_time == current_time + step * step_duration
    IN  IF swing_amount > 0 /\ step % 2 = 1
        THEN \* swing_delay = (step_duration * swing_amount) * 0.5
             step_time + (step_duration * swing_amount) \div 200
        ELSE step_time

\* The events generate appends for the steps from `step` on of a measure.
RECURSIVE rhythm_measure_events(_, _, _, _, _, _, _)
rhythm_measure_events(pattern, step, steps_per_measure, current_time, swing_amount, crash, v) ==
    IF step >= steps_per_measure THEN << >>
    ELSE LET step_time == rhythm_step_time(current_time, step, swing_amount)
         IN  (IF step = 0 /\ crash THEN <<<<step_time, 49, v.crash>>>> ELSE << >>)
             \o _generate_drum_hits(pattern, step, step_time, v.shaped, v.human)
             \o rhythm_measure_events(pattern, step + 1, steps_per_measure,
                                      current_time, swing_amount, crash, v)

\* The draws of the modifications of one measure, as records:
\*   mod, mod2   the outcome of the random tests of _apply_section_modifications
\*   tom, tom2   that of the tests of _add_tom_patterns and of the fill it adds
\*   perc, bit, roll   the tests, the randint(0, 1) and the roll type index of
\*                     _add_style_percussion
\*   fill, voice the index of the fill type and of the voice of a glitch fill
\* Within one measure all the random tests have the same outcome, and a draw
\* the measure does not make is left at its first value.
RhythmDraws(structured, secs, tm, measure, intensity, s) ==
    LET is_transition == _is_section_transition(structured, secs, tm, measure)
        fills == is_transition \/ measure % 8 = 7
        fill_types == IF fills
                      THEN _choose_fill_type(s, intensity, is_transition)
                      ELSE <<"none">>
    IN  {d \in [mod : BOOLEAN, mod2 : BOOLEAN, tom : BOOLEAN, tom2 : BOOLEAN,
                perc : BOOLEAN,
                bit : IF s = "idm" THEN {0, 1} ELSE {0},
                roll : IF s \in {"trap", "jungle", "drum&bass"}
                       THEN 1 .. 3 ELSE {1},
                fill : 1 .. Len(fill_types),
                voice : 1 .. 3] :
            /\ d.mod2 = d.mod /\ d.tom = d.mod /\ d.tom2 = d.mod
            /\ d.perc = d.mod
            /\ d.bit # 0 => d.perc
            /\ d.roll # 1 => d.perc
            /\ d.voice # 1 => (fill_types[d.fill] = "glitch_fill" /\ d.tom)}

\* The velocity draws of a measure: the shaped velocity of its hits, the
\* sign of their humanization and the velocity of a crash, random.randint(90, 127).
RhythmVelocityDraws ==
    {[shaped |-> 64, sign |-> -1, crash |-> 90],
     [shaped |-> 127, sign |-> 1, crash |-> 127]}

\* The time signature numerators and swing amounts (in hundredths; main.py
\* clamps its argument to [0, 1]) generate is called with.
RhythmCalls ==
    {[beats |-> 4, swing |-> 50], [beats |-> 3, swing |-> 0],
     [beats |-> 5, swing |-> 100]}

RhythmMeasureDuration == rh_in.beats * UnitsPerBeat

\* The section name and the intensity generate reads for a measure.
RhythmSection(m) ==
    IF rh_in.structured THEN sections[get_section(sections, m)].name ELSE "none"

RhythmIntensity(m) ==
    IF rh_in.structured THEN get_intensity(sections, m)
    ELSE [num |-> 70, den |-> 1]

\* RhythmGenerator(song_structure, style, time_signature, swing)
\*     .generate(measures, tempo, swing)
\* is called: with the structure built, for its style and total_measures
\* (main.py), or without a structure.
RhythmGenerate ==
    /\ rh_pc = "idle"
    /\ \E c \in RhythmCalls :
        \/ /\ pc = "built"
           /\ rh_in' = [structured |-> TRUE, style |-> style, beats |-> c.beats,
                        swing |-> c.swing, measures |-> total_measures]
        \/ /\ pc = "new"
           /\ \E s \in Styles :
                rh_in' = [structured |-> FALSE, style |-> s, beats |-> c.beats,
                          swing |-> c.swing, measures |-> MaxRhythmMeasures]
    /\ rh_pc' = "choose"
    /\ rh_measure' = 0
    /\ rh_time' = 0
    /\ rh_history' = << >>
    /\ rh_pattern' = "none"
    /\ rh_modified' = << >>
    /\ rh_events' = << >>
    /\ UNCHANGED nonRhythmVars

\* The head of one turn of the loop over the measures: the gate, which skips
\* the measure, or the choice of the pattern and the anti-repetition rule.
RhythmChoose ==
    /\ rh_pc = "choose" /\ rh_measure < rh_in.measures
    /\ rh_modified' = << >>
    /\ rh_events' = << >>
    /\ LET gates == IF rh_in.structured
                    THEN {should_play_instrument(sections, rh_measure,
                                                 "drums", g) : g \in BOOLEAN}
                    ELSE {TRUE}
           options == _choose_pattern_for_section(
                          RhythmSection(rh_measure), RhythmIntensity(rh_measure),
                          rh_measure, rh_in.style)
       IN  \E should_play \in gates :
            IF ~should_play
            THEN /\ rh_time' = rh_time + RhythmMeasureDuration
                 /\ rh_measure' = rh_measure + 1
                 /\ rh_pattern' = "none"
                 /\ UNCHANGED <<rh_pc, rh_history>>
            ELSE \E chosen \in {options[i] : i \in 1 .. Len(options)} :
                 LET others == avoid_repeating(rh_history, chosen) IN
                 \E pattern \in {others[i] : i \in 1 .. Len(others)} :
                     /\ rh_history' = append_history(rh_history, pattern)
                     /\ rh_pattern' = pattern
                     /\ rh_pc' = "render"
                     /\ UNCHANGED <<rh_measure, rh_time>>
    /\ UNCHANGED <<nonRhythmVars, rh_in>>

\* The rest of the turn: the modifications of the pattern, the events of its
\* steps and the advance of current_time.
RhythmRender ==
    /\ rh_pc = "render"
    /\ \E d \in RhythmDraws(rh_in.structured, sections, total_measures,
                            rh_measure, RhythmIntensity(rh_measure), rh_in.style),
          v \in RhythmVelocityDraws,
          crash_test \in IF rh_measure % 16 = 0 /\ rh_measure > 0
                         THEN BOOLEAN ELSE {FALSE} :
        LET modified_pattern ==
                _apply_section_modifications(
                    RhythmGenerator_patterns[rh_pattern], rh_in.structured,
                    sections, total_measures, rh_measure,
                    RhythmIntensity(rh_measure), rh_in.style, d)
            crash == _should_add_crash(rh_in.structured, sections, rh_measure,
                                       crash_test)
            vel == [shaped |-> v.shaped, crash |-> v.crash,
                    human |-> v.sign * _get_humanization_amount(rh_in.style)]
        IN  /\ rh_modified' = modified_pattern.p
            /\ IF modified_pattern.ok
               THEN /\ rh_events' = rhythm_measure_events(
                            modified_pattern.p, 0, rh_in.beats * 4, rh_time,
                            rh_in.swing, crash, vel)
                    /\ rh_time' = rh_time + RhythmMeasureDuration
                    /\ rh_measure' = rh_measure + 1
                    /\ rh_pc' = "choose"
               ELSE \* the KeyError leaves generate: no event list is returned
                    /\ rh_pc' = "raised"
                    /\ rh_events' = << >>
                    /\ UNCHANGED <<rh_measure, rh_time>>
    /\ UNCHANGED <<nonRhythmVars, rh_in, rh_history, rh_pattern>>

\* return events
RhythmReturn ==
    /\ rh_pc = "choose" /\ rh_measure = rh_in.measures
    /\ rh_pc' = "done"
    /\ UNCHANGED <<nonRhythmVars, rh_in, rh_measure, rh_time, rh_history,
                   rh_pattern, rh_modified, rh_events>>

\* The styles of the structures a rhythm track is generated with.
RhythmStyles == {"idm", "trap", "ambient"}

\* The structure a rhythm track is generated with.
RhythmConstruct ==
    /\ rh_pc = "idle"
    /\ ConstructWith({MaxRhythmMeasures - 2}, RhythmStyles)

NextRhythm ==
    \/ RhythmConstruct
    \/ RhythmGenerate
    \/ RhythmChoose
    \/ RhythmRender
    \/ RhythmReturn

SpecRhythm == Init /\ [][NextRhythm]_vars

\* Rhythm tracks with a section named drop: the structure of 33 measures of
\* the default template and that of MaxCrashMeasures measures of the trap
\* template both start one at measure 16.  The track is in 4/4 and is
\* followed for its first MaxCrashMeasures measures.
CrashConstruct ==
    /\ rh_pc = "idle"
    /\ \/ ConstructWith({33}, {"idm"})
       \/ ConstructWith({MaxCrashMeasures}, {"trap"})

CrashGenerate == pc = "built" /\ RhythmGenerate /\ rh_in'.beats = 4

CrashChoose == rh_measure < MaxCrashMeasures /\ RhythmChoose

NextCrash ==
    \/ CrashConstruct
    \/ CrashGenerate
    \/ CrashChoose
    \/ RhythmRender
    \/ RhythmReturn

SpecCrash == Init /\ [][NextCrash]_vars

----------------------------------------------------------------------------
(* BasslineGenerator: generators/bassline.py *)

\* _create_riff_library: a riff has sixteen steps of pattern, notes and
\* slides (step k is element k + 1).
BasslineGenerator_riff_library ==
    [acid_303 |->
        [pattern |-> <<1, 0, 1, 0, 0, 1, 0, 1, 1, 0, 0, 1, 0, 1, 1, 0>>,
         notes |-> <<0, 0, 12, 0, 0, 7, 0, 5, 0, 0, 0, 3, 0, 7, 12, 0>>,
         slides |-> <<0, 0, 1, 0, 0, 0, 0, 1, 0, 0, 0, 0, 0, 1, 0, 0>>],
     detroit_funk |->
        [pattern |-> <<1, 0, 0, 1, 0, 1, 0, 0, 1, 1, 0, 1, 0, 0, 1, 0>>,
         notes |-> <<0, 0, 0, -5, 0, 7, 0, 0, 0, 5, 0, 3, 0, 0, 12, 0>>,
         slides |-> <<0, 0, 0, 0, 0, 0, 0, 0, 1, 0, 0, 0, 0, 0, 0, 0>>],
     berlin_minimal |->
        [pattern |-> <<1, 0, 0, 0, 0, 0, 1, 0, 0, 0, 0, 0, 1, 0, 0, 0>>,
         notes |-> <<0, 0, 0, 0, 0, 0, -12, 0, 0, 0, 0, 0, 0, 0, 0, 0>>,
         slides |-> <<0, 0, 0, 0, 0, 0, 0, 0, 0, 0, 0, 0, 0, 0, 0, 0>>],
     uk_rave |->
        [pattern |-> <<1, 1, 0, 1, 1, 0, 1, 0, 1, 1, 0, 1, 1, 0, 1, 0>>,
         notes |-> <<0, 0, 0, 7, 7, 0, 5, 0, 0, 0, 0, 3, 3, 0, 7, 0>>,
         slides |-> <<0, 1, 0, 0, 1, 0, 0, 0, 0, 1, 0, 0, 1, 0, 0, 0>>],
     chicago_jack |->
        [pattern |-> <<1, 0, 1, 0, 1, 0, 1, 0, 1, 0, 1, 0, 1, 0, 1, 0>>,
         notes |-> <<0, 0, 12, 0, 0, 0, 7, 0, 0, 0, 5, 0, 0, 0, 3, 0>>,
         slides |-> <<0, 0, 0, 0, 0, 0, 0, 0, 0, 0, 0, 0, 0, 0, 0, 0>>],
     rolling_thunder |->
        [pattern |-> <<1, 1, 1, 0, 1, 1, 1, 0, 1, 1, 1, 0, 1, 1, 1, 0>>,
         notes |-> <<0, 2, 5, 0, 7, 5, 3, 0, 0, 2, 5, 0, 7, 10, 12, 0>>,
         slides |-> <<0, 0, 1, 0, 0, 0, 1, 0, 0, 0, 1, 0, 0, 0, 1, 0>>],
     warehouse_stomp |->
        [pattern |-> <<1, 0, 0, 1, 0, 0, 1, 0, 1, 0, 0, 1, 0, 1, 0, 0>>,
         notes |-> <<0, 0, 0, 0, 0, 0, 12, 0, -12, 0, 0, 0, 0, 7, 0, 0>>,
         slides |-> <<0, 0, 0, 0, 0, 0, 1, 0, 1, 0, 0, 0, 0, 0, 0, 0>>],
     hypnotic_loop |->
        [pattern |-> <<1, 0, 1, 0, 0, 1, 0, 1, 0, 1, 0, 0, 1, 0, 1, 0>>,
         notes |-> <<0, 0, 3, 0, 0, 5, 0, 7, 0, 5, 0, 0, 3, 0, 0, 0>>,
         slides |-> <<0, 0, 0, 0, 0, 0, 0, 1, 0, 1, 0, 0, 0, 0, 0, 0>>],
     sub_pressure |->
        [pattern |-> <<1, 0, 0, 0, 1, 0, 0, 0, 1, 0, 0, 0, 1, 0, 0, 0>>,
         notes |-> <<-12, 0, 0, 0, -12, 0, 0, 0, -7, 0, 0, 0, -5, 0, 0, 0>>,
         slides |-> <<1, 0, 0, 0, 1, 0, 0, 0, 1, 0, 0, 0, 1, 0, 0, 0>>],
     techno_gallop |->
        [pattern |-> <<1, 0, 1, 1, 0, 1, 0, 1, 1, 0, 1, 1, 0, 1, 0, 1>>,
         notes |-> <<0, 0, 0, 5, 0, 7, 0, 12, 0, 0, 0, 5, 0, 3, 0, 0>>,
         slides |-> <<0, 0, 0, 0, 0, 0, 0, 1, 0, 0, 0, 0, 0, 0, 0, 0>>],
     syncopated_groove |->
        [pattern |-> <<1, 0, 0, 1, 1, 0, 1, 0, 0, 1, 0, 1, 1, 0, 0, 1>>,
         notes |-> <<0, 0, 0, 7, 5, 0, 3, 0, 0, 12, 0, 7, 5, 0, 0, 0>>,
         slides |-> <<0, 0, 0, 1, 0, 0, 0, 0, 0, 1, 0, 0, 0, 0, 0, 0>>],
     stepped_ascent |->
        [pattern |-> <<1, 0, 0, 0, 1, 0, 0, 0, 1, 0, 0, 0, 1, 0, 0, 0>>,
         notes |-> <<0, 0, 0, 0, 3, 0, 0, 0, 7, 0, 0, 0, 12, 0, 0, 0>>,
         slides |-> <<0, 0, 0, 0, 1, 0, 0, 0, 1, 0, 0, 0, 1, 0, 0, 0>>],
     broken_eighth |->
        [pattern |-> <<1, 0, 1, 0, 0, 0, 1, 0, 1, 0, 0, 0, 1, 0, 1, 0>>,
         notes |-> <<0, 0, 5, 0, 0, 0, 7, 0, 12, 0, 0, 0, 7, 0, 5, 0>>,
         slides |-> <<0, 0, 0, 0, 0, 0, 0, 0, 1, 0, 0, 0, 0, 0, 0, 0>>],
     tribal_pump |->
        [pattern |-> <<1, 1, 0, 1, 0, 1, 1, 0, 1, 1, 0, 1, 0, 1, 1, 0>>,
         notes |-> <<0, -5, 0, 7, 0, 5, 0, 0, 0, -7, 0, 3, 0, 0, 5, 0>>,
         slides |-> <<0, 0, 0, 1, 0, 0, 0, 0, 0, 0, 0, 0, 0, 0, 1, 0>>],
     stutter_bass |->
        [pattern |-> <<1, 1, 1, 1, 0, 0, 1, 0, 1, 1, 1, 0, 0, 1, 0, 1>>,
         notes |-> <<0, 0, 0, 5, 0, 0, 7, 0, 12, 12, 12, 0, 0, 7, 0, 0>>,
         slides |-> <<0, 0, 0, 0, 0, 0, 0, 0, 1, 0, 0, 0, 0, 0, 0, 0>>],
     deep_rumble |->
        [pattern |-> <<1, 0, 0, 0, 0, 0, 0, 0, 1, 0, 0, 0, 0, 0, 1, 0>>,
         notes |-> <<-12, 0, 0, 0, 0, 0, 0, 0, -12, 0, 0, 0, 0, 0, -7, 0>>,
         slides |-> <<1, 0, 0, 0, 0, 0, 0, 0, 1, 0, 0, 0, 0, 0, 1, 0>>],
     octave_jump |->
        [pattern |-> <<1, 0, 1, 0, 1, 0, 1, 0, 1, 0, 1, 0, 1, 0, 1, 0>>,
         notes |-> <<0, 0, 12, 0, 0, 0, 12, 0, 7, 0, 19, 0, 5, 0, 17, 0>>,
         slides |-> <<0, 0, 1, 0, 0, 0, 1, 0, 0, 0, 1, 0, 0, 0, 1, 0>>],
     off_grid |->
        [pattern |-> <<1, 0, 0, 1, 0, 1, 0, 0, 1, 0, 0, 1, 0, 0, 1, 1>>,
         notes |-> <<0, 0, 0, 5, 0, 3, 0, 0, 7, 0, 0, 12, 0, 0, 7, 5>>,
         slides |-> <<0, 0, 0, 0, 0, 0, 0, 0, 1, 0, 0, 1, 0, 0, 0, 0>>],
     ascending_thirds |->
        [pattern |-> <<1, 0, 1, 0, 1, 0, 1, 0, 1, 0, 1, 0, 1, 0, 1, 0>>,
         notes |-> <<0, 0, 3, 0, 5, 0, 7, 0, 10, 0, 12, 0, 7, 0, 3, 0>>,
         slides |-> <<0, 0, 0, 0, 0, 0, 0, 0, 0, 0, 1, 0, 1, 0, 0, 0>>],
     bouncing_bass |->
        [pattern |-> <<1, 1, 0, 0, 1, 1, 0, 0, 1, 1, 0, 0, 1, 1, 0, 0>>,
         notes |-> <<0, 7, 0, 0, 12, 7, 0, 0, 0, 5, 0, 0, 3, 7, 0, 0>>,
         slides |-> <<0, 0, 0, 0, 1, 0, 0, 0, 0, 0, 0, 0, 0, 1, 0, 0>>]]

\* list(self.riff_library.keys())
riff_names ==
    <<"acid_303", "detroit_funk", "berlin_minimal", "uk_rave", 
      "chicago_jack", "rolling_thunder", "warehouse_stomp", "hypnotic_loop", 
      "sub_pressure", "techno_gallop", "syncopated_groove", "stepped_ascent", 
      "broken_eighth", "tribal_pump", "stutter_bass", "deep_rumble", 
      "octave_jump", "off_grid", "ascending_thirds", "bouncing_bass">>

\* MusicStyle.bassline_riffs; without a style, every riff of the library.
bassline_riffs(s) ==
    CASE s = "house" -> <<"detroit_funk", "chicago_jack", "hypnotic_loop">>
      [] s = "techno" ->
            <<"acid_303", "berlin_minimal", "warehouse_stomp", "rolling_thunder">>
      [] s = "hard-tekno" ->
            <<"acid_303", "sub_pressure", "uk_rave", "techno_gallop">>
      [] s = "breakbeat" -> <<"uk_rave", "rolling_thunder", "detroit_funk">>
      [] s = "idm" -> <<"hypnotic_loop", "sub_pressure", "techno_gallop">>
      [] s = "jungle" -> <<"sub_pressure", "rolling_thunder", "uk_rave">>
      [] s = "hip-hop" -> <<"detroit_funk", "warehouse_stomp", "sub_pressure">>
      [] s = "trap" -> <<"sub_pressure", "warehouse_stomp", "hypnotic_loop">>
      [] s = "ambient" -> <<"berlin_minimal", "sub_pressure", "hypnotic_loop">>
      [] s = "drum&bass" ->
            <<"sub_pressure", "rolling_thunder", "techno_gallop", "acid_303">>
      [] OTHER -> riff_names

\* The context generate uses without a SongStructure: no "section" and no
\* "chord" entry, so _choose_riff reads "" and _get_root_note reads "i".
Bassline_default_context ==
    [key |-> "A_minor", chord |-> "i", section |-> "none",
     intensity |-> [num |-> 70, den |-> 1]]

\* _choose_riff: the list random.choice draws from.
_choose_riff(context, s) ==
    LET section == context.section
        intensity == context.intensity
        preferred_riffs == bassline_riffs(s)
        among(names) ==
            LET options == Preferred(preferred_riffs, names)
            IN  IF options # << >> THEN options ELSE preferred_riffs
    IN  IF name_has(section, "intro") \/ intensity.num < 30 * intensity.den
        THEN among({"berlin_minimal", "sub_pressure", "hypnotic_loop"})
        ELSE IF name_has(section, "buildup")
        THEN IF intensity.num < 60 * intensity.den
             THEN among({"hypnotic_loop", "warehouse_stomp", "detroit_funk"})
             ELSE among({"rolling_thunder", "techno_gallop", "uk_rave",
                         "acid_303"})
        ELSE IF name_has(section, "drop") \/ name_has(section, "main")
                \/ intensity.num > 80 * intensity.den
        THEN preferred_riffs
        ELSE IF name_has(section, "breakdown") \/ name_has(section, "break")
        THEN among({"detroit_funk", "hypnotic_loop", "berlin_minimal",
                    "sub_pressure"})
        ELSE preferred_riffs

\* The riff selection of generate, once `riff` is chosen: a riff that the
\* last three entries of riff_history all name is drawn again among the
\* other riffs of the library.
RepeatsThree_long(riff_history, riff) ==
    /\ Len(riff_history) > 3
    /\ \A i \in (Len(riff_history) - 2) .. Len(riff_history) :
            riff_history[i] = riff

RepeatsThree(riff_history, riff) ==
    /\ Len(riff_history) > 2
    /\ \A i \in (Len(riff_history) - 2) .. Len(riff_history) :
            riff_history[i] = riff

available_riffs(riff_history, riff) ==
    IF RepeatsThree(riff_history, riff)
    THEN SelectSeq(riff_names, LAMBDA r : r # riff)
    ELSE <<riff>>

append_riff(riff_history, riff) ==
    LET appended == Append(riff_history, riff)
    IN  IF Len(appended) > 8 THEN Tail(appended) ELSE appended

\* _apply_riff_variations.  v holds the draws:
\*   type   the variation type random.choice draws
\*   vary   the steps on which the random tests of the variation succeed
\*          (the one test of "syncopate" succeeds when vary is not empty)
\*   jump, add, fill   the values random.choice draws for a step
\*   dyn    the steps on which the tests of the intensity stage succeed
_apply_riff_variations(riff, intensity, v) ==
    LET on(row, i) == row[i + 1] # 0
        varied ==
            CASE v.type = "octave_jump" ->
                    [riff EXCEPT !.notes =
                        [i \in 1 .. 16 |->
                            IF riff.pattern[i] # 0 /\ (i - 1) \in v.vary
                            THEN riff.notes[i] + v.jump ELSE riff.notes[i]]]
              [] v.type = "note_skip" ->
                    [riff EXCEPT !.pattern =
                        [i \in 1 .. 16 |->
                            IF (i - 1) \in v.vary THEN 0 ELSE riff.pattern[i]]]
              [] v.type = "double_time" /\ intensity.num > 70 * intensity.den ->
                    LET added(i) == /\ (i - 1) % 2 = 0
                                    /\ riff.pattern[i] = 0
                                    /\ (i - 1) \in v.vary
                    IN  [riff EXCEPT
                            !.pattern = [i \in 1 .. 16 |->
                                IF added(i) THEN 1 ELSE riff.pattern[i]],
                            !.notes = [i \in 1 .. 16 |->
                                IF added(i) /\ i > 1
                                THEN riff.notes[i - 1] + v.add
                                ELSE riff.notes[i]]]
              [] v.type = "syncopate" /\ v.vary # {} ->
                    [riff EXCEPT
                        !.pattern = <<riff.pattern[16]>>
                                    \o SubSeq(riff.pattern, 1, 15),
                        !.notes = <<riff.notes[16]>> \o SubSeq(riff.notes, 1, 15)]
              [] OTHER -> riff
    IN  IF intensity.num < 40 * intensity.den
        THEN [varied EXCEPT !.pattern =
                [i \in 1 .. 16 |->
                    IF (i - 1) \in v.dyn THEN 0 ELSE varied.pattern[i]]]
        ELSE IF intensity.num > 90 * intensity.den
        THEN LET added(i) == varied.pattern[i] = 0 /\ (i - 1) \in v.dyn
             IN  [varied EXCEPT
                    !.pattern = [i \in 1 .. 16 |->
                        IF added(i) THEN 1 ELSE varied.pattern[i]],
                    !.notes = [i \in 1 .. 16 |->
                        IF added(i) THEN v.fill ELSE varied.notes[i]]]
        ELSE varied

Bassline_key_roots ==
    [A_minor |-> 33, D_minor |-> 38, E_minor |-> 40, F_minor |-> 41, G_minor |-> 43]

Bassline_chord_offsets ==
    [i |-> 0, ii |-> 2, III |-> 3, iv |-> 5, v |-> 7, VI |-> 8, VII |-> 10,
     bII |-> 1]

\* BasslineGenerator._get_root_note
Bassline_get_root_note(context) ==
    LET root == IF context.key \in DOMAIN Bassline_key_roots
                THEN Bassline_key_roots[context.key] ELSE 33
        offset == IF context.chord \in DOMAIN Bassline_chord_offsets
                  THEN Bassline_chord_offsets[context.chord] ELSE 0
    IN  root + offset

\* _create_slide: four events between start_time and end_time.
_create_slide_three(start_note, end_note, start_time, end_time) ==
    [i \in 1 .. 3 |->
        <<start_time + (i * (end_time - start_time)) \div 4,
          TruncDiv(4 * start_note + i * (end_note - start_note), 4),
          60 + (i - 1) * 10>>]

_create_slide(start_note, end_note, start_time, end_time) ==
    \* note_step = (end_note - start_note) / 4, time_step likewise
    [i \in 1 .. 4 |->
        <<start_time + (i * (end_time - start_time)) \div 4,
          TruncDiv(4 * start_note + i * (end_note - start_note), 4),
          60 + (i - 1) * 10>>]

\* The concatenation of a sequence of sequences.
RECURSIVE Concat(_)
Concat(seqs) ==
    IF seqs = << >> THEN << >> ELSE Head(seqs) \o Concat(Tail(seqs))

\* The velocity of a regular note of generate.  The base is
\* int(80 * velocity_mod * (0.7 + intensity * 0.3)) with a SongStructure,
\* shaped by get_velocity_curve (j1, j2 its draws), and
\* int(80 * velocity_mod * intensity) without; human is the draw of
\* random.randint(-5, 5).
bass_velocity(structured, secs, measure, step, intensity, d) ==
    LET accented == IF step % 4 = 0 THEN 88      \* 80 * 1.1
                    ELSE IF step % 2 = 0 THEN 72 \* 80 * 0.9
                    ELSE 64                      \* 80 * 0.8
        velocity ==
            IF structured
            THEN get_velocity_curve(
                    secs, measure,
                    TruncDiv(accented * (700 * intensity.den + 3 * intensity.num),
                             1000 * intensity.den),
                    d.j1, d.j2)
            ELSE TruncDiv(accented * intensity.num, 100 * intensity.den)
    IN  Max(30, Min(127, velocity + d.human))

\* The events generate appends for one step of a measure.
bass_step_events(varied_riff, step, current_time, root_note, velocity) ==
    LET step_time == current_time + step * step_duration
        note == root_note + varied_riff.notes[step + 1]
    IN  IF varied_riff.pattern[step + 1] = 0 THEN << >>
        ELSE IF step > 0 /\ varied_riff.slides[step + 1] # 0
        THEN _create_slide(root_note + varied_riff.notes[step], note,
                           step_time - step_duration, step_time)
        ELSE <<<<step_time, note, velocity>>>>

\* The sets of steps on which the random tests of one stage of
\* _apply_riff_variations succeed.
StepMasks == {{}, 0 .. 15, {k \in 0 .. 15 : k % 3 = 0}}

\* The draws of _apply_riff_variations for a measure; a draw the measure
\* does not use is left at its first value.
BassDraws(intensity) ==
    LET high == intensity.num > 70 * intensity.den
        low == intensity.num < 40 * intensity.den
        top == intensity.num > 90 * intensity.den
    IN  {v \in [type : {"none", "octave_jump", "note_skip", "double_time",
                        "syncopate"},
                vary : StepMasks, jump : {-12, 12}, add : {2, 3, 5},
                dyn : StepMasks, fill : {0, 3, 5, 7, 12}] :
            /\ v.vary # {} => (v.type # "none" /\ (v.type = "double_time" => high))
            /\ v.jump # -12 => (v.type = "octave_jump" /\ v.vary # {})
            /\ v.add # 2 => (v.type = "double_time" /\ v.vary # {})
            /\ v.dyn # {} => (low \/ top)
            /\ v.fill # 0 => (top /\ v.dyn # {})}

\* The velocity draws of a measure: those of get_velocity_curve, in
\* thousandths, and that of random.randint(-5, 5).
BassVelocityDraws ==
    {[j1 |-> -100, j2 |-> -50, human |-> -5], [j1 |-> 100, j2 |-> 50, human |-> 5]}

\* The indexes random.choice draws in a list of n riffs: the first and the
\* last.
Choices(n) == {1, n}

\* generate has 4 beats in a measure, whatever the time signature.
BassMeasureDuration == 4 * UnitsPerBeat

\* The context of a measure.
BassContext(m) ==
    IF bl_in.structured THEN get_harmonic_context(sections, mood, m)
    ELSE Bassline_default_context

\* The styles a BasslineGenerator is made for, without a structure and with
\* the structure of the style.
BassStyles == {"none", "jungle"}
BassStructureStyles == {"house", "techno"}

\* The lengths generate is called with.
BassLengths == {1, MaxBassMeasures}

\* BasslineGenerator(song_structure, style).generate(measures, tempo): the
\* first call on the instance, with the structure built or without one, or a
\* further call with the same arguments.  riff_history is kept from call to
\* call.
BassGenerate ==
    /\ bl_pc \in {"idle", "done"}
    /\ \/ /\ bl_calls = 0
          /\ \E n \in BassLengths :
                \/ /\ pc = "built"
                   /\ bl_in' = [structured |-> TRUE, style |-> style,
                                measures |-> n]
                \/ /\ pc = "new"
                   /\ \E s \in BassStyles :
                        bl_in' = [structured |-> FALSE, style |-> s,
                                  measures |-> n]
       \/ /\ bl_calls > 0
          /\ (bl_calls + 1) * bl_in.measures <= MaxBassMeasures
          /\ UNCHANGED bl_in
    /\ bl_calls' = bl_calls + 1
    /\ bl_pc' = "choose"
    /\ bl_measure' = 0
    /\ bl_time' = 0
    /\ bl_riff' = "none"
    /\ bl_counter' = 0
    /\ bl_selected' = FALSE
    /\ bl_varied' = << >>
    /\ bl_events' = << >>
    /\ bl_fresh' = [history |-> << >>, riff |-> "none", events |-> << >>]
    /\ UNCHANGED <<nonBassVars, bl_history>>

\* The head of one turn of the loop over the measures: the gate, which skips
\* the measure, or the riff selection when it is due.  bl_fresh follows the
\* same call with the same draws on an instance whose riff_history was empty
\* when the call began.
BassChoose ==
    /\ bl_pc = "choose" /\ bl_measure < bl_in.measures
    /\ bl_varied' = << >>
    /\ bl_events' = << >>
    /\ LET gates == IF bl_in.structured
                    THEN {should_play_instrument(sections, bl_measure,
                                                 "bass", g) : g \in BOOLEAN}
                    ELSE {TRUE}
           options == _choose_riff(BassContext(bl_measure), bl_in.style)
       IN  \E should_play \in gates :
            IF ~should_play
            THEN /\ bl_time' = bl_time + BassMeasureDuration
                 /\ bl_measure' = bl_measure + 1
                 /\ bl_selected' = FALSE
                 /\ bl_fresh' = [bl_fresh EXCEPT !.events = << >>]
                 /\ UNCHANGED <<bl_pc, bl_riff, bl_counter, bl_history>>
            ELSE /\ bl_pc' = "render"
                 /\ bl_counter' = bl_counter + 1
                 /\ UNCHANGED <<bl_measure, bl_time>>
                 /\ IF bl_counter % 8 = 0 \/ bl_riff = "none"
                    THEN \E c \in Choices(Len(options)), r \in Choices(Len(riff_names) - 1) :
                         LET chosen == options[c]
                             others == available_riffs(bl_history, chosen)
                             riff == IF Len(others) = 1 THEN chosen ELSE others[r]
                             fresh_others ==
                                available_riffs(bl_fresh.history, chosen)
                             fresh_riff == IF Len(fresh_others) = 1 THEN chosen
                                           ELSE fresh_others[r]
                         IN  /\ (Len(others) = 1 /\ Len(fresh_others) = 1) => r = 1
                             /\ bl_riff' = riff
                             /\ bl_history' = append_riff(bl_history, riff)
                             /\ bl_selected' = TRUE
                             /\ bl_fresh' =
                                    [history |-> append_riff(bl_fresh.history,
                                                             fresh_riff),
                                     riff |-> fresh_riff,
                                     events |-> << >>]
                    ELSE /\ bl_selected' = FALSE
                         /\ bl_fresh' = [bl_fresh EXCEPT !.events = << >>]
                         /\ UNCHANGED <<bl_riff, bl_history>>
    /\ UNCHANGED <<nonBassVars, bl_in, bl_calls>>

\* The rest of the turn: the variations of the riff, the root note, the
\* events of the sixteen steps and the advance of current_time.
BassRender ==
    /\ bl_pc = "render"
    /\ LET context == BassContext(bl_measure)
           intensity == context.intensity
           root_note == Bassline_get_root_note(context)
           rendered(varied_riff, d) ==
                Concat([k \in 1 .. 16 |->
                    bass_step_events(
                        varied_riff, k - 1, bl_time, root_note,
                        bass_velocity(bl_in.structured, sections, bl_measure,
                                      k - 1, intensity, d))])
       IN  \E v \in BassDraws(intensity), d \in BassVelocityDraws :
            LET varied_riff ==
                    _apply_riff_variations(
                        BasslineGenerator_riff_library[bl_riff], intensity, v)
                fresh_riff ==
                    _apply_riff_variations(
                        BasslineGenerator_riff_library[bl_fresh.riff],
                        intensity, v)
            IN  /\ bl_varied' = varied_riff
                /\ bl_events' = rendered(varied_riff, d)
                /\ bl_fresh' = [bl_fresh EXCEPT !.events = rendered(fresh_riff, d)]
    /\ bl_time' = bl_time + BassMeasureDuration
    /\ bl_measure' = bl_measure + 1
    /\ bl_pc' = "choose"
    /\ UNCHANGED <<nonBassVars, bl_in, bl_calls, bl_riff, bl_counter,
                   bl_history, bl_selected>>

\* return events
BassReturn ==
    /\ bl_pc = "choose" /\ bl_measure = bl_in.measures
    /\ bl_pc' = "done"
    /\ UNCHANGED <<nonBassVars, bl_in, bl_calls, bl_measure, bl_time, bl_riff,
                   bl_counter, bl_history, bl_selected, bl_varied, bl_events,
                   bl_fresh>>

\* The structure a bassline is generated with.
BassConstruct ==
    /\ bl_pc = "idle"
    /\ ConstructWith({MaxBassMeasures}, BassStructureStyles)

NextBassline ==
    \/ BassConstruct
    \/ BassGenerate
    \/ BassChoose
    \/ BassRender
    \/ BassReturn

SpecBassline == Init /\ [][NextBassline]_vars

----------------------------------------------------------------------------
(* SynthAccompanimentGenerator: generators/synth_accompaniment.py *)

\* SongStructure.KEYS[key]["notes"]
SongStructure_KEYS ==
    [A_minor |-> <<57, 59, 60, 62, 64, 65, 67, 69>>,
     D_minor |-> <<62, 64, 65, 67, 69, 70, 72, 74>>,
     E_minor |-> <<64, 66, 67, 69, 71, 72, 74, 76>>,
     F_minor |-> <<65, 67, 68, 70, 72, 73, 75, 77>>,
     G_minor |-> <<67, 69, 70, 72, 74, 75, 77, 79>>]

\* The context generate uses without a SongStructure.
Accomp_default_context ==
    [key |-> "A_minor", scale |-> <<57, 59, 60, 62, 64, 65, 67, 69, 71, 72>>,
     chord |-> "i", intensity |-> [num |-> 70, den |-> 1]]

\* The scale degrees (0-indexed) of the base triads of _get_chord_notes.
chord_patterns ==
    [i |-> <<0, 2, 4>>, ii |-> <<1, 3, 5>>, III |-> <<2, 4, 6>>,
     iv |-> <<3, 5, 7>>, V |-> <<4, 6, 1>>, VI |-> <<5, 7, 2>>,
     VII |-> <<6, 1, 3>>, bVII |-> <<5, 7, 2>>]

Enrichments == {"triad", "7th", "9th", "sus2", "sus4", "add9"}

\* _get_chord_notes; enrichment is the draw of random.choices.
_get_chord_notes(context, enrichment) ==
    LET scale == context.scale
        n == Len(scale)
        base == IF context.chord \in DOMAIN chord_patterns
                THEN chord_patterns[context.chord] ELSE <<0, 2, 4>>
        pattern ==
            CASE enrichment = "7th" -> Append(base, (base[1] + 6) % n)
              [] enrichment = "9th" ->
                    base \o <<(base[1] + 6) % n, (base[1] + 8) % n>>
              [] enrichment = "sus2" -> [base EXCEPT ![2] = (base[1] + 1) % n]
              [] enrichment = "sus4" -> [base EXCEPT ![2] = (base[1] + 3) % n]
              [] enrichment = "add9" -> Append(base, (base[1] + 8) % n)
              [] OTHER -> base
    IN  [k \in 1 .. Len(pattern) |->
            IF pattern[k] < n THEN scale[pattern[k] + 1]
            ELSE scale[(pattern[k] % n) + 1] + 12]

\* MusicStyle.synth_density of the catalog, in hundredths; 0.7 without a
\* style.
synth_density(s) ==
    CASE s \in {"house"} -> 80
      [] s \in {"hard-tekno", "jungle"} -> 60
      [] s \in {"idm", "ambient"} -> 90
      [] s = "hip-hop" -> 50
      [] OTHER -> 70

\* _choose_pattern_type: the pattern types the draw of the measure is made
\* among.
_choose_pattern_type(measure, s) ==
    LET density == synth_density(s) IN
    IF s = "techno"
    THEN IF measure < 16 THEN <<"arpeggios", "filtered", "sustained", "stabs">>
         ELSE IF measure < 64 THEN <<"arpeggios", "filtered", "stabs", "sustained">>
         ELSE IF measure < 128 THEN <<"arpeggios", "filtered", "stabs">>
         ELSE <<"arpeggios", "filtered", "sustained">>
    ELSE IF measure < 16
    THEN IF density > 80 THEN <<"sustained", "arpeggios", "stabs">>
         ELSE <<"stabs", "sustained">>
    ELSE IF measure < 64
    THEN IF density < 60 THEN <<"stabs", "sustained", "filtered">>
         ELSE <<"stabs", "arpeggios", "filtered">>
    ELSE IF measure < 128
    THEN IF density > 80 THEN <<"arpeggios", "filtered", "sustained", "stabs">>
         ELSE <<"arpeggios", "filtered", "stabs">>
    ELSE <<"sustained", "filtered">>

\* The velocity of a note: get_velocity_curve with a SongStructure (j1, j2
\* its draws), int(base_velocity * intensity) without.
_get_velocity(structured, secs, measure, base_velocity, intensity, d) ==
    IF structured
    THEN get_velocity_curve(secs, measure, base_velocity, d.j1, d.j2)
    ELSE TruncDiv(base_velocity * intensity.num, 100 * intensity.den)

\* random.randint(lo, hi) for the draw d: its least or its greatest value.
randint(lo, hi, d) == IF d.high THEN hi ELSE lo

arp_types ==
    <<"classic_16th", "classic_down", "octave_up", "octave_down", "pingpong",
      "broken", "triplet", "syncopated", "double_octave", "sparse">>

\* _create_arpeggio_pattern for the arpeggio type arp_type: the _arp_*
\* method of the type.  Each is a loop that, on the steps that pass the
\* random test, appends the notes of its arp_pattern in turn; vel maps a
\* base velocity to the velocity of the note.
_create_arpeggio_pattern(chord_notes, start_time, beat_duration, arp_type, vel, d) ==
    LET sixteenth_duration == beat_duration \div 4
        range(n) == [k \in 1 .. n |-> k - 1]
        reversed(s) == [k \in 1 .. Len(s) |-> s[Len(s) + 1 - k]]
        up == Append(chord_notes, chord_notes[1] + 12)
        no_jump(i) == 0
        octave_jump(i) == IF i >= 8 /\ i < 12 THEN 12 ELSE 0
        arp(arp_pattern, steps, unit, jump(_), lo, hi) ==
            Concat([k \in 1 .. Len(steps) |->
                LET i == steps[k] IN
                IF i \in d.mask
                THEN <<<<start_time + i * unit,
                         arp_pattern[(i % Len(arp_pattern)) + 1] + jump(i),
                         vel[randint(lo, hi, d)]>>>>
                ELSE << >>])
    IN  CASE arp_type = "classic_16th" ->
                arp(up, range(16), sixteenth_duration, no_jump, 30, 55)
          [] arp_type = "classic_down" ->
                arp(reversed(up), range(16), sixteenth_duration, no_jump, 30, 55)
          [] arp_type = "octave_up" ->
                arp(up, range(16), sixteenth_duration, octave_jump, 35, 60)
          [] arp_type = "octave_down" ->
                arp(<<chord_notes[1] + 12>> \o reversed(chord_notes), range(16),
                    sixteenth_duration, no_jump, 35, 60)
          [] arp_type = "pingpong" ->
                arp(up \o reversed(chord_notes), range(16), sixteenth_duration,
                    no_jump, 30, 55)
          [] arp_type = "broken" ->
                arp(IF Len(chord_notes) >= 3
                    THEN <<chord_notes[1], chord_notes[3], chord_notes[2],
                           chord_notes[3]>>
                    ELSE Append(chord_notes, chord_notes[1]),
                    range(16), sixteenth_duration, no_jump, 30, 55)
          [] arp_type = "triplet" ->
                arp(up, range(12), beat_duration \div 3, no_jump, 30, 55)
          [] arp_type = "syncopated" ->
                arp(up, <<1, 3, 5, 6, 8, 10, 11, 13, 15>>, sixteenth_duration,
                    no_jump, 35, 60)
          [] arp_type = "double_octave" ->
                arp(chord_notes \o [k \in 1 .. Len(chord_notes) |->
                                        chord_notes[k] + 12]
                        \o <<chord_notes[1] + 24>>,
                    range(16), sixteenth_duration, no_jump, 30, 55)
          [] OTHER -> \* "sparse"
                arp(up, range(8), beat_duration \div 2, no_jump, 30, 50)

\* The chord: every note of chord_notes at `time`.
chord_at(chord_notes, time, velocity) ==
    [k \in 1 .. Len(chord_notes) |-> <<time, chord_notes[k], velocity>>]

\* _create_stab_pattern: stab_timings = [0.5, 2.5], in half beats 1 and 5.
_create_stab_pattern(chord_notes, start_time, beat_duration, vel, d) ==
    LET stab_timings == <<1, 5>> IN
    Concat([k \in 1 .. 2 |->
        IF (k - 1) \in d.mask
        THEN chord_at(chord_notes,
                      start_time + (stab_timings[k] * beat_duration) \div 2,
                      vel[randint(40, 65, d)])
        ELSE << >>])

\* _create_sustained_pattern: the chord on the start of the measure.
_create_sustained_pattern(chord_notes, start_time, vel, d) ==
    IF 0 \in d.mask
    THEN chord_at(chord_notes, start_time, vel[randint(30, 50, d)])
    ELSE << >>

\* _create_filtered_pattern: on the eighth notes, the notes drawn by
\* random.sample (d.sample, as indexes in chord_notes).
_create_filtered_pattern(chord_notes, start_time, beat_duration, vel, d) ==
    LET eighth_duration == beat_duration \div 2
        base_velocity == 45
    IN  Concat([k \in 1 .. 8 |->
            LET i == k - 1
                \* int(30 * abs(0.5 - (i / 8.0)))
                velocity_mod == (30 * Abs(4 - i)) \div 8
                base_vel == Max(25, Min(65, base_velocity + velocity_mod))
            IN  IF i \in d.mask
                THEN [n \in 1 .. Len(d.sample) |->
                        <<start_time + i * eighth_duration,
                          chord_notes[d.sample[n]], vel[base_vel]>>]
                ELSE << >>])

\* _generate_accompaniment_pattern for the pattern type drawn.
_generate_accompaniment_pattern(chord_notes, start_time, beat_duration, pattern_type, vel, d) ==
    CASE pattern_type = "stabs" ->
            _create_stab_pattern(chord_notes, start_time, beat_duration, vel, d)
      [] pattern_type = "arpeggios" ->
            _create_arpeggio_pattern(chord_notes, start_time, beat_duration,
                                     arp_types[d.arp], vel, d)
      [] pattern_type = "sustained" ->
            _create_sustained_pattern(chord_notes, start_time, vel, d)
      [] pattern_type = "filtered" ->
            _create_filtered_pattern(chord_notes, start_time, beat_duration,
                                     vel, d)
      [] OTHER -> << >>

\* The draws of one measure of generate, as records:
\*   enrichment   the chord enrichment random.choices draws
\*   type, arp    the index of the pattern type and of the arpeggio type
\*   mask         the steps of the pattern on which the random test succeeds
\*   high         the velocity draws: random.randint gives its greatest or
\*                its least value, and so do the draws of get_velocity_curve
\*   sample       the indexes random.sample draws in chord_notes
\* A draw the measure does not make is left at its first value.
AccompDraws(options) ==
    {d \in [enrichment : Enrichments, type : 1 .. Len(options),
            arp : 1 .. Len(arp_types), mask : StepMasks, high : BOOLEAN,
            sample : {<<1>>, <<3, 1>>}] :
        /\ d.arp # 1 => (options[d.type] = "arpeggios" /\ d.mask # {})
        /\ d.sample # <<1>> => (options[d.type] = "filtered" /\ d.mask # {})
        /\ d.high => d.mask # {}
        /\ d.enrichment # "triad" => d.mask # {}}

\* The draws of get_velocity_curve, in thousandths.
AccompVelocityDraws(d) ==
    IF d.high THEN [j1 |-> 100, j2 |-> 50] ELSE [j1 |-> -100, j2 |-> -50]

\* generate has 4 beats in a measure.
AccompBeatsPerMeasure == 4

\* The gated turn of the loop:
\*     current_time += beats_per_measure * beat_duration; continue
skip_measure_stays(current_time, beat_duration) == current_time

skip_measure(current_time, beat_duration) ==
    current_time + AccompBeatsPerMeasure * beat_duration

\* The context of a measure, with its scale.
AccompContext(m) ==
    IF ac_in.structured
    THEN LET context == get_harmonic_context(sections, mood, m)
         IN  [key |-> context.key, scale |-> SongStructure_KEYS[context.key],
              chord |-> context.chord, intensity |-> context.intensity]
    ELSE Accomp_default_context

\* The styles a SynthAccompanimentGenerator is made for, without a
\* structure and with one.
AccompStyles == {"none", "techno", "idm", "hip-hop"}
AccompStructureStyles == {"techno", "ambient"}

\* SynthAccompanimentGenerator(song_structure, style).generate(measures, tempo)
\* is called: with the structure built, for its style and total_measures
\* (main.py), or without a structure.
AccompGenerate ==
    /\ ac_pc = "idle"
    /\ \/ /\ pc = "built"
          /\ ac_in' = [structured |-> TRUE, style |-> style,
                       measures |-> total_measures]
       \/ /\ pc = "new"
          /\ \E s \in AccompStyles :
                ac_in' = [structured |-> FALSE, style |-> s,
                          measures |-> MaxAccompMeasures]
    /\ ac_pc' = "choose"
    /\ ac_measure' = 0
    /\ ac_time' = 0
    /\ ac_played' = FALSE
    /\ ac_skipped' = 0
    /\ ac_events' = << >>
    /\ UNCHANGED nonAccompVars

\* The head of one turn of the loop over the measures: the gate, which
\* skips the measure.
AccompChoose ==
    /\ ac_pc = "choose" /\ ac_measure < ac_in.measures
    /\ ac_events' = << >>
    /\ LET gates == IF ac_in.structured
                    THEN {should_play_instrument(sections, ac_measure,
                                                 "synth_accomp", g) : g \in BOOLEAN}
                    ELSE {TRUE}
       IN  \E should_play \in gates :
            IF ~should_play
            THEN /\ ac_time' = skip_measure(ac_time, UnitsPerBeat)
                 /\ ac_measure' = ac_measure + 1
                 /\ ac_played' = FALSE
                 /\ ac_skipped' = ac_skipped + 1
                 /\ UNCHANGED ac_pc
            ELSE /\ ac_pc' = "render"
                 /\ ac_played' = TRUE
                 /\ UNCHANGED <<ac_measure, ac_time, ac_skipped>>
    /\ UNCHANGED <<nonAccompVars, ac_in>>

\* The rest of the turn: the chord, the pattern of the measure and the
\* advance of current_time.
AccompRender ==
    /\ ac_pc = "render"
    /\ LET beat_duration == UnitsPerBeat
           context == AccompContext(ac_measure)
           options == _choose_pattern_type(ac_measure, ac_in.style)
       IN  \E d \in AccompDraws(options) :
            LET chord_notes == _get_chord_notes(context, d.enrichment)
                \* the velocity of a note of base velocity 25..65
                vel == [base_velocity \in 25 .. 65 |->
                    _get_velocity(ac_in.structured, sections, ac_measure,
                                  base_velocity, context.intensity,
                                  AccompVelocityDraws(d))]
            IN  /\ ac_events' = _generate_accompaniment_pattern(
                        chord_notes, ac_time, beat_duration, options[d.type],
                        vel, d)
                /\ ac_time' = ac_time + AccompBeatsPerMeasure * beat_duration
    /\ ac_measure' = ac_measure + 1
    /\ ac_pc' = "choose"
    /\ UNCHANGED <<nonAccompVars, ac_in, ac_played, ac_skipped>>

\* return events
AccompReturn ==
    /\ ac_pc = "choose" /\ ac_measure = ac_in.measures
    /\ ac_pc' = "done"
    /\ UNCHANGED <<nonAccompVars, ac_in, ac_measure, ac_time, ac_played,
                   ac_skipped, ac_events>>

\* The structure an accompaniment is generated with.
AccompConstruct ==
    /\ ac_pc = "idle"
    /\ ConstructWith({MaxAccompMeasures - 7}, AccompStructureStyles)

NextAccomp ==
    \/ AccompConstruct
    \/ AccompGenerate
    \/ AccompChoose
    \/ AccompRender
    \/ AccompReturn

SpecAccomp == Init /\ [][NextAccomp]_vars

----------------------------------------------------------------------------
(* SynthLeadGenerator: phrases of lead melody.  Times are in units. *)

\* SCALES[self.current_scale]; current_scale is "A_minor" from __init__ on.
Lead_scale_notes == <<57, 59, 60, 62, 64, 65, 67, 69, 71, 72>>

\* generate and _generate_lead_phrase have 4 beats in a measure.
LeadBeatsPerMeasure == 4
phrase_length == 8

LeadMeasureDuration == LeadBeatsPerMeasure * UnitsPerBeat

\* _should_have_lead: random.random() < p with the p of the intensity band;
\* chance is the draw, in hundredths.
_should_have_lead(intensity, chance) ==
    IF intensity.num < 30 * intensity.den THEN chance < 20
    ELSE IF intensity.num < 50 * intensity.den THEN chance < 40
    ELSE IF intensity.num < 70 * intensity.den THEN chance < 60
    ELSE IF intensity.num < 90 * intensity.den THEN chance < 80
    ELSE chance < 90

LeadChances == {10, 30, 50, 70, 85, 95}

\* _choose_melody_style: the styles random.choices can return, those of a
\* weight above 0.
_choose_melody_style(phrase_start) ==
    IF phrase_start < 32 THEN {"melodic_line", "staccato_stabs", "sustained_notes"}
    ELSE IF phrase_start < 96
    THEN {"melodic_line", "staccato_stabs", "sustained_notes", "rapid_sequence"}
    ELSE {"melodic_line", "staccato_stabs", "sustained_notes"}

\* The draws of one measure: the rhythm template, the side of every
\* random.randint and random.choice of a note, which of the per-note random
\* tests pass, the melodic movement and the direction of a run.
LeadKeeps == {"all", "odd", "even", "none"}
LeadDraws ==
    [rhythm : 1 .. 3, high : BOOLEAN, keep : LeadKeeps, movement : {-2, 0, 1},
     up : BOOLEAN]

\* The random test of the k-th note of a measure passes.
lead_keep(d, k) ==
    \/ d.keep = "all"
    \/ d.keep = "odd" /\ k % 2 = 1
    \/ d.keep = "even" /\ k % 2 = 0

\* The rhythms of _create_melodic_line, a beat being UnitsPerBeat.
melodic_rhythms ==
    << <<0, 2400, 7200, 12000, 14400>>,
       <<0, 4800, 9600, 14400>>,
       <<2400, 4800, 12000, 16800>> >>

\* _create_melodic_line: a walk over the indices of the scale, one note for
\* each offset of the rhythm whose random test passes.
_create_melodic_line(structured, secs, scale_notes, start_time, beat_duration, d) ==
    LET rhythm == melodic_rhythms[d.rhythm]
        scaled(k) == (rhythm[k] * beat_duration) \div UnitsPerBeat
        first_idx == randint(2, Len(scale_notes) - 3, d)
        idx[k \in 0 .. Len(rhythm)] ==
            IF k = 0 THEN first_idx
            ELSE IF lead_keep(d, k) /\ k > 1
                 THEN Max(0, Min(Len(scale_notes) - 1, idx[k - 1] + d.movement))
                 ELSE idx[k - 1]
        note_event(k) ==
            LET note_time == start_time + scaled(k)
                base_velocity == randint(95, 125, d)
                measure == note_time \div (4 * beat_duration)
                velocity ==
                    IF structured
                    THEN get_velocity_curve(secs, measure, base_velocity,
                                            AccompVelocityDraws(d).j1,
                                            AccompVelocityDraws(d).j2)
                    ELSE base_velocity
            IN  <<note_time, scale_notes[idx[k] + 1], velocity>>
        events[k \in 0 .. Len(rhythm)] ==
            IF k = 0 THEN << >>
            ELSE IF lead_keep(d, k) THEN Append(events[k - 1], note_event(k))
                 ELSE events[k - 1]
    IN  events[Len(rhythm)]

\* stab_positions of _create_staccato_stabs: 0.75, 2.25 and 3.5 beats.
stab_positions == <<3600, 10800, 16800>>

\* _create_staccato_stabs: a note of scale_notes[3:7] at each position whose
\* random test passes.
_create_staccato_stabs(scale_notes, start_time, beat_duration, d) ==
    LET note == IF d.high THEN scale_notes[7] ELSE scale_notes[4]
        events[k \in 0 .. Len(stab_positions)] ==
            IF k = 0 THEN << >>
            ELSE IF lead_keep(d, k)
                 THEN Append(events[k - 1],
                        <<start_time + (stab_positions[k] * beat_duration) \div UnitsPerBeat,
                          note, randint(105, 127, d)>>)
                 ELSE events[k - 1]
    IN  events[Len(stab_positions)]

\* _create_sustained_notes: a note of scale_notes[4:8] at the start of the
\* measure and a harmony note of scale_notes[6:] a beat later.
_create_sustained_notes(scale_notes, start_time, beat_duration, d) ==
    LET note == IF d.high THEN scale_notes[8] ELSE scale_notes[5]
        harmony_note == IF d.high THEN scale_notes[Len(scale_notes)] ELSE scale_notes[7]
        sustained == IF lead_keep(d, 1)
                     THEN << <<start_time, note, randint(75, 100, d)>> >>
                     ELSE << >>
        harmony == IF lead_keep(d, 2)
                   THEN << <<start_time + beat_duration, harmony_note,
                             randint(55, 80, d)>> >>
                   ELSE << >>
    IN  sustained \o harmony

\* _create_rapid_sequence: six notes of the scale, up or down, a sixteenth
\* apart from beat 1 or beat 3.
_create_rapid_sequence(scale_notes, start_time, beat_duration, d) ==
    LET sixteenth_duration == beat_duration \div 4
        start_idx == IF d.up THEN randint(0, Len(scale_notes) - 6, d)
                     ELSE randint(5, Len(scale_notes) - 1, d)
        sequence_notes ==
            IF d.up THEN [i \in 1 .. 6 |-> scale_notes[start_idx + i]]
            ELSE [i \in 1 .. 6 |-> scale_notes[start_idx + 2 - i]]
        sequence_start == (IF d.rhythm = 1 THEN 0 ELSE 2) * beat_duration
    IN  [i \in 1 .. 6 |->
            <<start_time + sequence_start + (i - 1) * sixteenth_duration,
              sequence_notes[i], randint(85, 110, d)>>]

\* The events _generate_lead_phrase appends for one measure of a phrase.
lead_measure_events(structured, secs, melody_style, measure_time, beat_duration, d) ==
    IF melody_style = "melodic_line"
    THEN _create_melodic_line(structured, secs, Lead_scale_notes, measure_time,
                              beat_duration, d)
    ELSE IF melody_style = "staccato_stabs"
    THEN _create_staccato_stabs(Lead_scale_notes, measure_time, beat_duration, d)
    ELSE IF melody_style = "sustained_notes"
    THEN _create_sustained_notes(Lead_scale_notes, measure_time, beat_duration, d)
    ELSE IF melody_style = "rapid_sequence"
    THEN _create_rapid_sequence(Lead_scale_notes, measure_time, beat_duration, d)
    ELSE << >>

\* The end of a phrase that is not cut at the end of the track.
phrase_end_whole(phrase_start, measures) == phrase_start + phrase_length

\* phrase_end = min(phrase_start + phrase_length, measures)
phrase_end(phrase_start, measures) == Min(phrase_start + phrase_length, measures)

\* SynthLeadGenerator(song_structure, style).generate(measures, tempo) is
\* called, with the structure built for its total_measures, or without one.
LeadGenerate ==
    /\ ld_pc = "idle"
    /\ \/ /\ pc = "built"
          /\ ld_in' = [structured |-> TRUE, measures |-> total_measures]
       \/ /\ pc = "new"
          /\ ld_in' = [structured |-> FALSE, measures |-> MaxLeadMeasures]
    /\ ld_pc' = "phrase"
    /\ ld_phrase' = 0
    /\ ld_measure' = 0
    /\ ld_style' = "none"
    /\ ld_events' = << >>
    /\ UNCHANGED nonLeadVars

\* The head of one turn of the loop over the phrases: the gate and the
\* intensity at phrase_start, _should_have_lead and the melody style.
LeadPhrase ==
    /\ ld_pc = "phrase" /\ ld_phrase < ld_in.measures
    /\ ld_events' = << >>
    /\ \E gate \in BOOLEAN, chance \in LeadChances :
        LET intensity ==
                IF ld_in.structured
                THEN get_harmonic_context(sections, mood, ld_phrase).intensity
                ELSE [num |-> 70, den |-> 1]
            should_play ==
                IF ld_in.structured
                THEN should_play_instrument(sections, ld_phrase, "synth_lead", gate)
                ELSE TRUE
        IN  IF should_play /\ _should_have_lead(intensity, chance)
            THEN /\ ld_style' \in _choose_melody_style(ld_phrase)
                 /\ ld_measure' = ld_phrase
                 /\ ld_pc' = "measure"
                 /\ UNCHANGED ld_phrase
            ELSE /\ ld_style' = "none"
                 /\ ld_phrase' = ld_phrase + phrase_length
                 /\ UNCHANGED <<ld_pc, ld_measure>>
    /\ UNCHANGED <<nonLeadVars, ld_in>>

\* One turn of the loop of _generate_lead_phrase over the measures.
LeadMeasure ==
    /\ ld_pc = "measure"
    /\ ld_measure < phrase_end(ld_phrase, ld_in.measures)
    /\ LET beat_duration == UnitsPerBeat
           start_time == ld_phrase * LeadBeatsPerMeasure * beat_duration
           measure_time == start_time + (ld_measure - ld_phrase) * 4 * beat_duration
       IN  \E d \in LeadDraws :
            ld_events' = lead_measure_events(ld_in.structured, sections, ld_style,
                                             measure_time, beat_duration, d)
    /\ ld_measure' = ld_measure + 1
    /\ UNCHANGED <<nonLeadVars, ld_pc, ld_in, ld_phrase, ld_style>>

\* events.extend(melody_events): the phrase is rendered.
LeadEndPhrase ==
    /\ ld_pc = "measure"
    /\ ld_measure = phrase_end(ld_phrase, ld_in.measures)
    /\ ld_phrase' = ld_phrase + phrase_length
    /\ ld_pc' = "phrase"
    /\ ld_events' = << >>
    /\ UNCHANGED <<nonLeadVars, ld_in, ld_measure, ld_style>>

\* return events
LeadReturn ==
    /\ ld_pc = "phrase" /\ ld_phrase >= ld_in.measures
    /\ ld_pc' = "done"
    /\ UNCHANGED <<nonLeadVars, ld_in, ld_phrase, ld_measure, ld_style, ld_events>>

\* The structure a lead track is generated with.
LeadConstruct ==
    /\ ld_pc = "idle"
    /\ ConstructWith({MaxLeadMeasures - 24}, {"techno", "ambient"})

NextLead ==
    \/ LeadConstruct
    \/ LeadGenerate
    \/ LeadPhrase
    \/ LeadMeasure
    \/ LeadEndPhrase
    \/ LeadReturn

SpecLead == Init /\ [][NextLead]_vars

-----------------------------------------------------------------------------
(* MidiComposer and DrumMidiComposer: midi_output.py, at the tempo 120 *)

\* The times MidiComposer is given are seconds; here they are counted in
\* 1/20320 s, the unit in which a sixteenth of a beat at the tempo 120
\* (1/32 s) and every _calculate_note_length (a multiple of 1/2540 s) are
\* whole numbers.
MidiUnitsPerSubBassTick == 635

\* sorted(events, key=lambda x: x[0]): the stable sort by time.
SortByTime(events) ==
    LET insert(acc, e) ==
            LET n == Cardinality({i \in DOMAIN acc : acc[i][1] <= e[1]})
            IN  SubSeq(acc, 1, n) \o <<e>> \o SubSeq(acc, n + 1, Len(acc))
        sorted[k \in 0 .. Len(events)] ==
            IF k = 0 THEN << >> ELSE insert(sorted[k - 1], events[k])
    IN  sorted[Len(events)]

\* _calculate_note_length: 0.05 + v/127 * 0.1, 0.2 + v/127 * 0.3 or
\* 0.1 + v/127 * 0.4 seconds.
_calculate_note_length(note, velocity) ==
    IF note < 50 THEN 8 * (127 + 2 * velocity)
    ELSE IF note < 60 THEN 8 * (508 + 6 * velocity)
    ELSE 8 * (254 + 8 * velocity)

\* _calculate_release_velocity, with the thresholds 0.1 s, 0.3 s and 0.6 s.
_calculate_release_velocity(attack_velocity, note_length) ==
    IF note_length < 2032 THEN 0
    ELSE IF note_length < 6096 THEN TruncDiv(40 * 127 + attack_velocity * 20, 127)
    ELSE IF note_length < 12192 THEN TruncDiv(50 * 127 + attack_velocity * 20, 127)
    ELSE TruncDiv(60 * 127 + attack_velocity * 20, 127)

\* _create_midi_events: every event of the list becomes a note_on and a
\* note_off of its own, note_length later; the list is sorted by time.
_create_midi_events(events) ==
    LET midi_events[k \in 0 .. Len(events)] ==
            IF k = 0 THEN << >>
            ELSE LET time == events[k][1]
                     note == events[k][2]
                     velocity == events[k][3]
                     note_length == _calculate_note_length(note, velocity)
                     release ==
                        _calculate_release_velocity(velocity, note_length)
                 IN  midi_events[k - 1] \o
                        << <<time, "note_on", note, velocity>>,
                           <<time + note_length, "note_off", note, release>> >>
    IN  SortByTime(midi_events[Len(events)])

\* int(event_time * self.ticks_per_beat * self.tempo / 60) for a time in
\* 1/20320 s: 960 ticks a second, 6 ticks in 127 units.
midi_event_ticks(event_time) == (event_time * 6) \div 127

\* MidiComposer._create_midi_track: the note messages of the track, each
\* with its type, note, velocity and delta time.
Midi_create_midi_track(events) ==
    LET midi_events == _create_midi_events(SortByTime(events))
        ticks(k) == midi_event_ticks(midi_events[k][1])
    IN  [k \in 1 .. Len(midi_events) |->
            [type |-> midi_events[k][2], note |-> midi_events[k][3],
             velocity |-> midi_events[k][4],
             time |-> Max(0, ticks(k) - (IF k = 1 THEN 0 ELSE ticks(k - 1)))]]

\* The list main.py hands to composer.add_track("Sub Bass", ...): the
\* events of the generator, their times in seconds.
SubBassTrack(events) ==
    [k \in 1 .. Len(events) |->
        <<events[k][1] * MidiUnitsPerSubBassTick, events[k][2], events[k][3]>>]

\* int(event_time * self.ticks_per_beat * self.tempo / 60) for a time in
\* units: 480 ticks a beat.
drum_event_ticks(event_time) == event_time \div (UnitsPerBeat \div 480)

\* current_time_ticks = event_time_ticks + 5
drum_current_ticks(event_time_ticks, delta_time, current_time_ticks) ==
    event_time_ticks + 5

\* DrumMidiComposer._create_midi_track: for each event a note_on and, 5
\* ticks later, a note_off of velocity 0.
Drum_create_midi_track(events) ==
    LET sorted_events == SortByTime(events)
        ticks(k) == drum_event_ticks(sorted_events[k][1])
        current[k \in 0 .. Len(sorted_events)] ==
            IF k = 0 THEN 0
            ELSE drum_current_ticks(ticks(k), Max(0, ticks(k) - current[k - 1]),
                                    current[k - 1])
        track[k \in 0 .. Len(sorted_events)] ==
            IF k = 0 THEN << >>
            ELSE track[k - 1] \o
                    << [type |-> "note_on", note |-> sorted_events[k][2],
                        velocity |-> sorted_events[k][3],
                        time |-> Max(0, ticks(k) - current[k - 1])],
                       [type |-> "note_off", note |-> sorted_events[k][2],
                        velocity |-> 0, time |-> 5] >>
    IN  track[Len(sorted_events)]

\* The absolute tick of each message of a track: the sum of the delta times
\* up to it.
AbsoluteTicks(track) ==
    LET at[k \in 0 .. Len(track)] ==
            IF k = 0 THEN 0 ELSE at[k - 1] + track[k].time
    IN  [k \in 1 .. Len(track) |-> at[k]]

-----------------------------------------------------------------------------
(* One track of a song: a generator of main.py on its own *)

\* A behaviour generates one track: the other two generators have not been
\* called, and the structure built, if any, is one the track is generated
\* with.
RhythmAlone ==
    /\ bl_pc = "idle" /\ ac_pc = "idle"
    /\ pc = "built" => (style \in RhythmStyles
                        /\ total_measures = MaxRhythmMeasures - 2)

BassAlone ==
    /\ rh_pc = "idle" /\ ac_pc = "idle"
    /\ pc = "built" => (style \in BassStructureStyles
                        /\ total_measures = MaxBassMeasures)

AccompAlone ==
    /\ rh_pc = "idle" /\ bl_pc = "idle"
    /\ pc = "built" => (style \in AccompStructureStyles
                        /\ total_measures = MaxAccompMeasures - 7)

NextTrack ==
    \/ RhythmAlone /\ RhythmConstruct
    \/ RhythmAlone /\ RhythmGenerate
    \/ RhythmAlone /\ RhythmChoose
    \/ RhythmAlone /\ RhythmRender
    \/ RhythmAlone /\ RhythmReturn
    \/ BassAlone /\ BassConstruct
    \/ BassAlone /\ BassGenerate
    \/ BassAlone /\ BassChoose
    \/ BassAlone /\ BassRender
    \/ BassAlone /\ BassReturn
    \/ AccompAlone /\ AccompConstruct
    \/ AccompAlone /\ AccompGenerate
    \/ AccompAlone /\ AccompChoose
    \/ AccompAlone /\ AccompRender
    \/ AccompAlone /\ AccompReturn

SpecTrack == Init /\ [][NextTrack]_vars

----------------------------------------------------------------------------
(* Full generations one after the other, each on new objects: main.py *)

\* BasslineGenerator.__init__: the attributes of the new instance that
\* generate writes, whatever those of the instance made before it were.
BasslineGenerator_init_kept(previous) ==
    [current_riff |-> "none", riff_history |-> previous.riff_history]

BasslineGenerator_init(previous) ==
    [current_riff |-> "none", riff_history |-> << >>]

\* A further run of main with the same arguments, once the bassline of the
\* run before is returned: a new SongStructure (the same draw of the mood)
\* and a new BasslineGenerator.
SongAgain ==
    /\ bl_pc = "done" /\ song < MaxSongs
    /\ song' = song + 1
    /\ IF pc = "built"
       THEN /\ sections' = _create_structure(total_measures, style)
            /\ UNCHANGED <<pc, total_measures, style, mood>>
       ELSE UNCHANGED structVars
    /\ LET new == BasslineGenerator_init([riff_history |-> bl_history])
       IN  /\ bl_history' = new.riff_history
           /\ bl_riff' = new.current_riff
    /\ bl_pc' = "idle"
    /\ bl_calls' = 0
    /\ bl_measure' = 0
    /\ bl_time' = 0
    /\ bl_counter' = 0
    /\ bl_selected' = FALSE
    /\ bl_varied' = << >>
    /\ bl_events' = << >>
    /\ bl_fresh' = [history |-> << >>, riff |-> "none", events |-> << >>]
    /\ UNCHANGED <<queryVars, subBassVars, rhythmVars, accompVars, leadVars, bl_in>>

\* generate is called once on an instance.
NextSong ==
    \/ BassConstruct
    \/ bl_calls = 0 /\ BassGenerate
    \/ BassChoose
    \/ BassRender
    \/ BassReturn
    \/ SongAgain

SpecSong == Init /\ [][NextSong]_vars

----------------------------------------------------------------------------
(* Claims about the song structure planner *)

Built == pc = "built"
InRange(m) == 0 <= m /\ m < total_measures
Contains(i, m) == sections[i].start_measure <= m /\ m < sections[i].end_measure

\* The first section that contains m (there is one for every m in range).
Containing(m) ==
    CHOOSE i \in 1 .. Len(sections) :
        Contains(i, m) /\ \A j \in 1 .. (i - 1) : ~Contains(j, m)

\* A section with start_measure >= end_measure, or one that ends past the track.
Degenerate(secs, tm) ==
    \E i \in 1 .. Len(secs) :
        \/ secs[i].start_measure >= secs[i].end_measure
        \/ secs[i].end_measure > tm

\* C1: the sections are in ascending order, each has start_measure <
\* end_measure, each starts where the previous one ends, the first starts at 0
\* and the last ends at total_measures.
C1_SectionsCoverTrack ==
    Built =>
        /\ sections[1].start_measure = 0
        /\ sections[Len(sections)].end_measure = total_measures
        /\ \A i \in 1 .. Len(sections) :
            sections[i].start_measure < sections[i].end_measure
        /\ \A i \in 1 .. (Len(sections) - 1) :
            sections[i].end_measure = sections[i + 1].start_measure

\* C2: for every measure m of the track, get_section(m) returns a section s
\* with s.start_measure <= m < s.end_measure.
C2_GetSectionContains ==
    (call.op = "get_section" /\ InRange(call.measure)) =>
        /\ ret.section \in 1 .. Len(sections)
        /\ Contains(ret.section, call.measure)

\* C2 witness: a measure of a track whose last section is empty was queried
\* and the second section returned.
C2_Witness ==
    /\ call.op = "get_section" /\ InRange(call.measure)
    /\ ret.section = 2
    /\ sections[Len(sections)].start_measure >= total_measures

\* C3, as claimed: get_section(m) is the first section for every negative m
\* and the last section for every m >= total_measures.
C3_ClampToNearest ==
    call.op = "get_section" =>
        /\ call.measure < 0 => ret.section = 1
        /\ call.measure >= total_measures => ret.section = Len(sections)

\* C3, amended: a query outside [0, total_measures) returns a section; for a
\* negative m it is the last section, for m >= total_measures it is a section
\* that contains m when there is one and the last section otherwise.
C3_DefaultsToLast ==
    (call.op = "get_section" /\ ~InRange(call.measure)) =>
        /\ ret.section \in 1 .. Len(sections)
        /\ call.measure < 0 => ret.section = Len(sections)
        /\ call.measure >= total_measures =>
            \/ Contains(ret.section, call.measure)
            \/ /\ ret.section = Len(sections)
               /\ \A i \in 1 .. Len(sections) : ~Contains(i, call.measure)

\* C3 witness: a negative measure was queried on a track of several sections.
C3_Witness ==
    /\ call.op = "get_section" /\ call.measure < 0
    /\ ret.section = Len(sections) /\ Len(sections) > 1

\* C4: a 32-measure track of a style with the default template has exactly
\* the sections intro[0,4), main[4,24), outro[24,32), and get_section(10) is
\* the section named "main".
DefaultTemplate(s) ==
    \/ s = "none"
    \/ structure_type(s) \notin
        {"ambient", "hip-hop", "trap", "breakbeat", "jungle", "dnb", "aggressive"}

C4_ThirtyTwoMeasures ==
    (Built /\ total_measures = 32 /\ DefaultTemplate(style)) =>
        /\ Len(sections) = 3
        /\ <<sections[1].name, sections[1].start_measure, sections[1].end_measure>>
            = <<"intro", 0, 4>>
        /\ <<sections[2].name, sections[2].start_measure, sections[2].end_measure>>
            = <<"main", 4, 24>>
        /\ <<sections[3].name, sections[3].start_measure, sections[3].end_measure>>
            = <<"outro", 24, 32>>
        /\ (call.op = "get_section" /\ call.measure = 10) =>
            sections[ret.section].name = "main"

\* C4 witness: get_section(10) was asked of SongStructure(32, techno).
C4_Witness ==
    /\ Built /\ total_measures = 32 /\ style = "techno"
    /\ call.op = "get_section" /\ call.measure = 10

\* C5: whenever a track of at most 32 measures would get a degenerate section
\* from its style's template, the planner returns the simplified structure
\* intro, main, outro instead.
C5_ShortTrackFallback ==
    (Built /\ total_measures <= 32 /\ Degenerate(sections, total_measures)) =>
        /\ Len(sections) = 3
        /\ <<sections[1].name, sections[2].name, sections[3].name>>
            = <<"intro", "main", "outro">>

\* C6: for every measure m of the track, get_intensity(m) is the containing
\* section's intensity while the position in the section is <= 0.75 or the
\* section is the last one, and otherwise
\*   intensity + (next.intensity - intensity) * (position - 0.75) * 4;
\* it lies between the two intensities, it is the plain intensity at the first
\* measure of a section, and at the last measure of a section it is no farther
\* from the next section's intensity than the section's own intensity is.
C6_IntensityBlend ==
    (call.op = "get_intensity" /\ InRange(call.measure)) =>
        LET i == Containing(call.measure)
            cur == sections[i].intensity
            span == sections[i].end_measure - sections[i].start_measure
            offset == call.measure - sections[i].start_measure
        IN  /\ ret.den > 0
            /\ (i = Len(sections) \/ 4 * offset <= 3 * span) =>
                    ret.num = cur * ret.den
            /\ (i < Len(sections) /\ 4 * offset > 3 * span) =>
                    LET nxt == sections[i + 1].intensity IN
                    /\ ret.num * span =
                        (cur * span + (nxt - cur) * (4 * offset - 3 * span)) * ret.den
                    /\ Min(cur, nxt) * ret.den <= ret.num
                    /\ ret.num <= Max(cur, nxt) * ret.den
            /\ offset = 0 => ret.num = cur * ret.den
            /\ (i < Len(sections) /\ offset = span - 1) =>
                    LET nxt == sections[i + 1].intensity IN
                    Abs(nxt * ret.den - ret.num) <= Abs(nxt - cur) * ret.den

\* C6 witness: an intensity strictly between those of two sections was
\* returned for the last measure of a section.
C6_Witness ==
    /\ call.op = "get_intensity" /\ InRange(call.measure)
    /\ LET i == Containing(call.measure) IN
        /\ i < Len(sections)
        /\ call.measure = sections[i].end_measure - 1
        /\ ret.num # sections[i].intensity * ret.den
        /\ ret.num # sections[i + 1].intensity * ret.den

\* C7: get_harmonic_context(m).chord is
\* progression[((m - section.start_measure) div 4) mod 4]; it is the first
\* chord at the first measure of a section, and within a section it differs
\* between m and m + 1 only when m + 1 - section.start_measure is a multiple
\* of 4.
C7_ChordCadence ==
    call.op = "get_harmonic_context" =>
        LET m == call.measure
            start == sections[ret.section].start_measure
            progression == PROGRESSIONS[mood]
        IN  /\ ret.chord = progression[(((m - start) \div 4) % 4) + 1]
            /\ m = start => ret.chord = progression[1]
            /\ (get_section(sections, m + 1) = ret.section
                /\ get_harmonic_context(sections, mood, m + 1).chord # ret.chord)
                    => (m + 1 - start) % 4 = 0

\* C7 witness: the context of the first measure of a section that does not
\* start on a multiple of 4 was asked, in a mood whose chords differ.
C7_Witness ==
    /\ call.op = "get_harmonic_context"
    /\ call.measure = sections[ret.section].start_measure
    /\ call.measure % 4 # 0
    /\ mood = "uplifting" /\ ret.chord = "i"

\* C8: get_velocity_curve(measure, base_velocity) is an integer in [1, 127]
\* for every measure, in or out of range, every section and every integer
\* base_velocity, whatever the jitter drawn.
C8_VelocityCurveInRange ==
    call.op = "get_velocity_curve" =>
        /\ ret.velocity \in Int
        /\ 1 <= ret.velocity /\ ret.velocity <= 127

\* C8 witness: a negative base velocity in a buildup section came back as 1.
C8_Witness ==
    /\ call.op = "get_velocity_curve" /\ call.base < 0
    /\ is_buildup_name(sections[ret.section].name)
    /\ ret.velocity = 1

----------------------------------------------------------------------------
(* Claims about the sub-bass generator *)

\* An entry of the pattern has just been rendered into sb_events.
SubBassRendered == sb_pc = "entry" /\ sb_idx > 0

\* C9: every note-on event returned by generate has a velocity in [1, 127],
\* for every time signature and with or without a SongStructure.
C9_NoteOnVelocity ==
    SubBassRendered => (1 <= sb_events[1][3] /\ sb_events[1][3] <= 127)

\* C10: every note-on of SubBassGenerator.generate is followed by one
\* note-off of the same pitch at the strictly later time start + duration,
\* with a release velocity in [60, 80].
C10_NoteOnOffPairs ==
    SubBassRendered =>
        LET entry == sb_pattern[sb_idx]
            on == sb_events[1]
            off == sb_events[2]
        IN  /\ Len(sb_events) = 2
            /\ on[1] = sb_time + entry[1]
            /\ on[2] = entry[3]
            /\ off[2] = on[2]
            /\ off[1] = on[1] + entry[2]
            /\ off[1] > on[1]
            /\ 60 <= off[3] /\ off[3] <= 80

\* C10 witness: with a SongStructure, the last entry of a pattern of several
\* entries was rendered at a velocity the structure shaped, and its note-off
\* came later with a release velocity strictly inside (60, 80).
C10_Witness ==
    /\ SubBassRendered /\ sb_in.structured
    /\ Len(sb_pattern) > 1 /\ sb_idx = Len(sb_pattern)
    /\ sb_events[1][3] # sb_pattern[sb_idx][4]
    /\ sb_events[2][1] > sb_events[1][1]
    /\ 60 < sb_events[2][3] /\ sb_events[2][3] < 80

\* C20: the sub-bass presence gate never lets the sub-bass play on a
\* major-break measure: no measure m with m mod 16 = 15 (so none with
\* m mod 32 = 31) is ever rendered, whatever the random draw.
C20_MajorBreakSilent ==
    ~(sb_pc = "entry" /\ sb_measure % 16 = 15)

----------------------------------------------------------------------------
(* Claims about the rhythm generator *)

\* A measure of the rhythm has just been rendered: its events are rh_events,
\* its index is rh_measure - 1 and it started one measure before rh_time.
RhythmRendered == rh_pc \in {"choose", "done"} /\ rh_modified # << >>
RhythmStart == rh_time - RhythmMeasureDuration

\* The measure in progress was not gated off and generate left it by an
\* exception: it emitted nothing.
RhythmRaised == rh_pc = "raised"

\* C13: every measure of RhythmGenerator.generate that is not gated off and
\* is not in a section whose name contains "breakdown" emits a bass-drum
\* event (note 36) at exactly the start time of the measure.
C13_KickOnMeasureStart ==
    /\ (RhythmRendered
         /\ ~name_has(RhythmSection(rh_measure - 1), "breakdown"))
        => \E i \in 1 .. Len(rh_events) :
                rh_events[i][1] = RhythmStart /\ rh_events[i][2] = 36
    /\ (RhythmRaised /\ ~name_has(RhythmSection(rh_measure), "breakdown"))
        => FALSE

\* The time the claim gives to step k of the measure just rendered: a
\* sixteenth of a beat per step, and half a step times the swing amount more
\* for an odd step.
SwungTime(k) ==
    RhythmStart + k * (UnitsPerBeat \div 4)
    + (IF k % 2 = 1 THEN ((UnitsPerBeat \div 4) * rh_in.swing) \div 200 ELSE 0)

\* Voice `voice` of the modified pattern is active on step k.
ActiveOn(voice, k) ==
    /\ voice \in DOMAIN drum_map
    /\ k < Len(rh_modified[voice])
    /\ rh_modified[voice][k + 1] = 1

C15_NoFiveInARow ==
    /\ Len(rh_history) <= 8
    /\ \A i \in 1 .. Len(rh_history) : rh_history[i] \in DOMAIN RhythmGenerator_patterns
    /\ \A i \in 1 .. (Len(rh_history) - 4) :
            \E j \in i .. (i + 4) : rh_history[j] # rh_history[i]

\* Nine measures of a track without a structure are played: the history has
\* dropped its first entry, and the fifth measure, for which only "minimal"
\* is drawn, was given another pattern after four measures of "minimal".
C15_Witness ==
    /\ ~rh_in.structured /\ rh_pc = "choose" /\ rh_measure = 9
    /\ Len(rh_history) = 8
    /\ rh_history[1] = "minimal" /\ rh_history[2] = "minimal"
    /\ rh_history[3] = "minimal" /\ rh_history[4] # "minimal"

----------------------------------------------------------------------------
(* Claims about the bassline generator *)

\* C16: after any sequence of generate calls on a BasslineGenerator,
\* riff_history holds at most 8 names and never the same name four times in
\* a row: a selection that would repeat the last three recorded riffs is
\* replaced by another riff of the library.
C16_RiffHistoryBounded ==
    /\ Len(bl_history) <= 8
    /\ \A i \in 1 .. (Len(bl_history) - 3) :
            \E j \in i .. (i + 3) : bl_history[j] # bl_history[i]

\* The ninth call has returned: the history has dropped its first entry and
\* shows a riff recorded three times in a row and then replaced.
C16_Witness ==
    /\ bl_pc = "done" /\ bl_calls = 9 /\ Len(bl_history) = 8
    /\ \E i \in 1 .. 5 :
            /\ bl_history[i] = bl_history[i + 1]
            /\ bl_history[i] = bl_history[i + 2]
            /\ bl_history[i] # bl_history[i + 3]

\* The turn of the loop for measure bl_measure is past the gate: the measure
\* is played, and bl_counter counts it.
BassPlaying == bl_pc = "render"

\* C17: the riff is re-selected every 8 measures of the track and on the
\* first measure: a played measure selects a riff exactly when it is the
\* first played measure of the call or its index is a multiple of 8, also
\* when measures before it were gated off.
C17_ReselectEveryEight ==
    BassPlaying => (bl_selected <=> (bl_counter = 1 \/ bl_measure % 8 = 0))

\* A measure of the bassline has just been rendered: its events are
\* bl_events, its index is bl_measure - 1 and it started one measure before
\* bl_time.
BassRendered == bl_pc \in {"choose", "done"} /\ bl_varied # << >>
BassStart == bl_time - 4 * UnitsPerBeat

\* The time of step k of the measure just rendered, the pitch of the step
\* and the events of the measure after the time of step k - 1 and up to the
\* time of step k.
BassStepTime(k) == BassStart + k * (UnitsPerBeat \div 4)
BassPitch(k) ==
    Bassline_get_root_note(BassContext(bl_measure - 1)) + bl_varied.notes[k + 1]
BassEventsOf(k) ==
    {i \in 1 .. Len(bl_events) :
        BassStepTime(k - 1) < bl_events[i][1] /\ bl_events[i][1] <= BassStepTime(k)}

\* Step k of the measure just rendered is active with its slide flag set.
SlideOn(k) == bl_varied.pattern[k + 1] # 0 /\ bl_varied.slides[k + 1] # 0

\* C19: an active step k > 0 whose slide flag is set emits exactly four
\* events and no regular note: they are evenly spaced after the time of step
\* k - 1, the last one at the time of step k, their velocities are 60, 70,
\* 80, 90 and their pitches follow the line from the pitch of step k - 1 to
\* the pitch of step k, the last one being the pitch of step k; an active
\* step 0 emits one regular note whatever its slide flag.
C19_SlideEvents ==
    BassRendered =>
        /\ \A k \in 1 .. 15 :
                SlideOn(k) =>
                    /\ Cardinality(BassEventsOf(k)) = 4
                    /\ \A n \in 1 .. 4 : \E i \in BassEventsOf(k) :
                            /\ 4 * bl_events[i][1]
                                    = 4 * BassStepTime(k - 1)
                                      + n * (BassStepTime(k) - BassStepTime(k - 1))
                            /\ bl_events[i][3] = 50 + 10 * n
                            /\ Abs(4 * bl_events[i][2]
                                   - (4 * BassPitch(k - 1)
                                      + n * (BassPitch(k) - BassPitch(k - 1)))) < 4
                            /\ n = 4 => bl_events[i][2] = BassPitch(k)
        /\ bl_varied.pattern[1] # 0 =>
                /\ Cardinality(BassEventsOf(0)) = 1
                /\ \A i \in BassEventsOf(0) :
                        /\ bl_events[i][1] = BassStart
                        /\ bl_events[i][2] = BassPitch(0)

\* A measure is rendered with a slide between two pitches that are not a
\* multiple of four semitones apart, and with an active step 0 whose slide
\* flag is set.
C19_Witness ==
    /\ BassRendered
    /\ SlideOn(0)
    /\ \E k \in 1 .. 15 :
            SlideOn(k) /\ (BassPitch(k) - BassPitch(k - 1)) % 4 # 0

\* C12: no generator carries state from one generate call to the next, so
\* a call on a used instance returns what the same call with the same
\* arguments and draws returns on an instance that was never used: every
\* measure of every call of a BasslineGenerator gets the events it gets when
\* riff_history is empty at the start of the call.
C12_NoCrossCallState ==
    bl_events = bl_fresh.events

----------------------------------------------------------------------------
(* Claims about the gate of the generators *)

\* Every event of `events` has its time in [from, to).
EventsWithin(events, from, to) ==
    \A k \in 1 .. Len(events) : from <= events[k][1] /\ events[k][1] < to

\* The last turn of the loop of a generator is over (measure counts the
\* turns taken), current_time is `time`, the turn was gated off or not and
\* appended `events`: the clock is at the end of the measure of the turn, a
\* gated turn appended nothing, and the events lie in the measure.
TurnKeepsClock(measure, time, gated, events, D) ==
    /\ time = measure * D
    /\ gated => events = << >>
    /\ EventsWithin(events, (measure - 1) * D, measure * D)

\* C18: in the bassline, rhythm and accompaniment generators a measure the
\* gate skips contributes no event and still advances the clock by one
\* measure: every event of measure m has its time in [m*D, (m+1)*D), D the
\* duration of beats_per_measure beats, however many measures were skipped
\* before m.
C18_GatedMeasureKeepsClock ==
    /\ (rh_pc \in {"choose", "done"} /\ rh_measure > 0) =>
            TurnKeepsClock(rh_measure, rh_time, rh_pattern = "none", rh_events,
                           rh_in.beats * UnitsPerBeat)
    /\ (bl_pc \in {"choose", "done"} /\ bl_measure > 0) =>
            TurnKeepsClock(bl_measure, bl_time, bl_varied = << >>, bl_events,
                           4 * UnitsPerBeat)
    /\ (ac_pc \in {"choose", "done"} /\ ac_measure > 0) =>
            TurnKeepsClock(ac_measure, ac_time, ~ac_played, ac_events,
                           4 * UnitsPerBeat)

\* An accompaniment measure with events after two measures the gate skipped.
C18_Witness ==
    /\ ac_pc = "choose" /\ ac_played /\ ac_skipped >= 2
    /\ ac_events # << >>

----------------------------------------------------------------------------
(* Claims about full generations *)

----------------------------------------------------------------------------
(* Claims about the pitches drawn from a harmonic context *)

\* C21: for every harmonic context get_harmonic_context returns, the root
\* note of the sub-bass is that of the bassline a whole number of octaves
\* lower: both add the same chord offset to their key root.
C21_SubBassRootOctaves ==
    call.op = "get_harmonic_context" =>
        /\ SubBass_get_root_note(ret) <= Bassline_get_root_note(ret)
        /\ (Bassline_get_root_note(ret) - SubBass_get_root_note(ret)) % 12 = 0

\* The scale degree (from 1) a chord symbol names.
ChordDegree ==
    [i |-> 1, III |-> 3, iv |-> 4, v |-> 5, VI |-> 6, VII |-> 7]

\* C22: for every chord get_harmonic_context returns, the chord tones of the
\* accompaniment without enrichment are the triad of the scale degree the
\* symbol names: the first is the note of that degree in the scale of the
\* section key, and every tone is a note of that scale.
C22_ChordTonesOfDegree ==
    (call.op = "get_harmonic_context" /\ ret.chord \in DOMAIN ChordDegree) =>
        LET scale == SongStructure_KEYS[ret.key]
            chord_notes ==
                _get_chord_notes([scale |-> scale, chord |-> ret.chord], "triad")
        IN  /\ chord_notes[1] = scale[ChordDegree[ret.chord]]
            /\ \A k \in 1 .. Len(chord_notes) :
                    \E n \in 1 .. Len(scale) : chord_notes[k] = scale[n]

----------------------------------------------------------------------------
(* Claims about the crash cymbal *)

\* Measure m is the first of a section whose name contains "drop".
DropStart(m) ==
    /\ rh_in.structured /\ m > 0
    /\ RhythmSection(m) # RhythmSection(m - 1)
    /\ name_has(RhythmSection(m), "drop")

\* The events of the measure just rendered at its start time, and those of
\* them that are hits of its pattern.
StartEvents == {i \in 1 .. Len(rh_events) : rh_events[i][1] = RhythmStart}
StartHits ==
    {i \in 1 .. Len(drum_names) :
        /\ drum_names[i] \in DOMAIN rh_modified
        /\ rh_modified[drum_names[i]][1] = 1}

\* The crash rule added its event to the measure just rendered.
CrashAdded ==
    /\ Cardinality(StartEvents) = Cardinality(StartHits) + 1
    /\ rh_events[1][2] = 49

\* C23: the first measure of every section whose name contains "drop"
\* always emits a crash (note 49) at its start time, so generate does not
\* leave by an exception before such a measure is rendered; and the crash
\* rule adds its event to no other measure than a first measure of a drop
\* and a measure m > 0 with m mod 16 = 0.
C23_CrashOnDrop ==
    /\ (RhythmRendered /\ DropStart(rh_measure - 1)) =>
            \E i \in StartEvents : rh_events[i][2] = 49
    /\ RhythmRaised =>
            ~\E n \in rh_measure .. (rh_in.measures - 1) : DropStart(n)
    /\ (RhythmRendered /\ CrashAdded) =>
            \/ DropStart(rh_measure - 1)
            \/ (rh_measure - 1) > 0 /\ (rh_measure - 1) % 16 = 0

-----------------------------------------------------------------------------
(* Claims about the order of the event lists *)

\* C24: the list SubBassGenerator.generate returns is ordered by time: each
\* note-on it appends is not earlier than the event appended just before it,
\* and each note-off is not earlier than its note-on, whatever the number of
\* measures (tracks longer than 128 measures included) and the time signature.
C24_EventsInTimeOrder ==
    SubBassRendered =>
        /\ sb_events[1][1] - sb_time >= sb_late
        /\ sb_events[2][1] >= sb_events[1][1]

-----------------------------------------------------------------------------
(* Claims about the lead melody *)

\* A measure of a phrase has just been rendered into ld_events.
LeadRendered == ld_pc = "measure" /\ ld_measure > ld_phrase

\* The events of the last measure lie in the window of its phrase, which
\* ends with the track, and the phrases without a lead have no event.
LeadInPhrase ==
    /\ LeadRendered =>
        \A i \in DOMAIN ld_events :
            /\ ld_events[i][1] >= ld_phrase * LeadMeasureDuration
            /\ ld_events[i][1] < (ld_phrase + phrase_length) * LeadMeasureDuration
            /\ ld_events[i][1] < ld_in.measures * LeadMeasureDuration
    /\ ld_style = "none" => ld_events = << >>

\* The presence and the melody style of a phrase are decided at its first
\* measure and kept while its measures are rendered.
LeadDecidedOnce ==
    /\ ld_pc = "measure" =>
        /\ ld_style' # ld_style => ld_pc' = "phrase"
        /\ ld_style # "none"
        /\ ld_phrase' # ld_phrase => ld_measure = Min(ld_phrase + phrase_length, ld_in.measures)
    /\ ld_style' # ld_style => ld_phrase' % phrase_length = 0
    /\ (ld_pc = "phrase" /\ ld_pc' = "measure") => ld_measure' = ld_phrase'

\* C25: presence is decided once per phrase of 8 measures, at its first
\* measure; a phrase that is gated off or not selected adds no event, a
\* phrase that is present keeps one melody style for all its measures, every
\* event of a phrase lies in [phrase_start*D, phrase_end*D) with phrase_end =
\* min(phrase_start + 8, measures), and no event has a time >= measures*D.
C25_LeadPhrases == []LeadInPhrase /\ [][LeadDecidedOnce]_vars

\* The last phrase of a track of 36 measures, cut after 4 measures, has
\* rendered its last measure with events.
C25_Witness ==
    /\ LeadRendered /\ ld_events # << >>
    /\ ld_phrase + phrase_length > ld_in.measures
    /\ ld_measure = ld_in.measures

-----------------------------------------------------------------------------
(* Claims about the MIDI files *)

\* The messages of the Sub Bass track made of the entry just rendered.
SubBassMessages == Midi_create_midi_track(SubBassTrack(sb_events))

\* C26: MidiComposer writes the note-off event SubBassGenerator emits for an
\* entry as a note_off message, never as a note_on: the Sub Bass track of an
\* entry has as many note_on messages as the entry has note-on events, one.
C26_NoteOffWrittenAsNoteOff ==
    SubBassRendered =>
        /\ Cardinality({k \in DOMAIN SubBassMessages :
                            SubBassMessages[k].type = "note_on"}) = 1
        /\ ~\E k \in DOMAIN SubBassMessages :
                /\ SubBassMessages[k].type = "note_on"
                /\ SubBassMessages[k].velocity = sb_events[2][3]
                /\ sb_events[2][3] # sb_events[1][3]

\* The drum track made of the measure just rendered, and the events
\* DrumMidiComposer sorted to make it.
DrumMessages == Drum_create_midi_track(rh_events)
DrumSorted == SortByTime(rh_events)

\* C29: in the track DrumMidiComposer writes, the note_on of every event
\* lands at the absolute tick int(time * ticks_per_beat * tempo / 60) of the
\* event: the delta times up to it add up to that tick, also when several
\* hits share a time.
C29_DrumNoteOnAtEventTick ==
    RhythmRendered =>
        \A k \in DOMAIN DrumSorted :
            AbsoluteTicks(DrumMessages)[2 * k - 1] = drum_event_ticks(DrumSorted[k][1])

-----------------------------------------------------------------------------
(* Claims about the completion of RhythmGenerator.generate *)

\* C27: RhythmGenerator.generate never raises, whatever the style, the base
\* pattern and the fill archetype: no fill or section modification writes to
\* a percussion voice the pattern of the measure does not have.
C27_GenerateNeverRaises == ~RhythmRaised

-----------------------------------------------------------------------------
(* Claims about the measure grid *)

\* The start of measure m in the tracks of BasslineGenerator,
\* SynthAccompanimentGenerator and SynthLeadGenerator, whose generate has 4
\* beats in a measure whatever the time signature.
FourBeatMeasureStart(m) == m * LeadMeasureDuration

\* C28: for every time signature the generators keep the same measure grid:
\* each measure of the rhythm track starts at the time the same measure
\* starts in the bassline, accompaniment and lead tracks.
C28_SameMeasureGrid ==
    rh_pc \in {"choose", "render"} => rh_time = FourBeatMeasureStart(rh_measure)

-----------------------------------------------------------------------------
(* Claims about the fixed entries of the gating table *)

\* The name of the section of measure m without its trailing digits.
SectionType(m) == rstrip_digits(sections[get_section(sections, m)].name)

\* The section of measure m uses the rules of "buildup" or of "drop".
UsesBuildupOrDropRules(m) == SectionType(m) \notin {"intro", "breakdown", "outro"}

\* C30: whatever the draw, should_play_instrument is false for "sub_bass" at
\* every measure of an intro or an outro, so that in 4/4 no note-on of the
\* sub-bass has its time in such a section, and it is true for "drums",
\* "bass" and "synth_accomp" at every measure of a section that uses the
\* rules of "buildup" or "drop", the sections of any other name included.
\* The gates are taken at each measure the loop of the sub-bass comes to.
C30_FixedGates ==
    /\ (sb_pc = "measure" /\ sb_in.structured /\ sb_measure < sb_in.measures) =>
        \A draw \in BOOLEAN :
            /\ SectionType(sb_measure) \in {"intro", "outro"} =>
                    ~should_play_instrument(sections, sb_measure, "sub_bass", draw)
            /\ UsesBuildupOrDropRules(sb_measure) =>
                    \A instrument \in {"drums", "bass", "synth_accomp"} :
                        should_play_instrument(sections, sb_measure, instrument, draw)
    /\ (SubBassRendered /\ sb_in.structured /\ sb_in.beats = 4) =>
            SectionType(sb_events[1][1] \div (4 * TicksPerBeat)) \notin {"intro", "outro"}

\* A note-on of the sub-bass is rendered in 4/4 in a section whose name is
\* not in the table, of a structure that has an intro as well.
C30_Witness ==
    /\ SubBassRendered /\ sb_in.structured /\ sb_in.beats = 4
    /\ SectionType(sb_measure) \notin DOMAIN play_rules
    /\ \E m \in 0 .. (total_measures - 1) : SectionType(m) = "intro"

====
